---------------------------- MODULE Spec2Model ----------------------------
(***************************************************************************)
(* Trendline detection engine of quant-trad.                               *)
(*                                                                         *)
(* The model follows src/src/indicators/trendline.py (TrendlineIndicator:  *)
(* pivot search, pooling over lookbacks, sequential RANSAC on pivots, the  *)
(* window/regression path, envelope shift, first break, touches) and the   *)
(* legacy scorer src/classes/Trendline.py.                                 *)
(*                                                                         *)
(* Arithmetic.  Prices are integers (price ticks) and bar indices are      *)
(* 0-based as in the code.  Every float of the code that is a quotient is  *)
(* kept as an exact fraction: a slope is mn/md with md > 0 in lowest       *)
(* terms, an intercept is c/md, fractional tolerances are num/den.  A      *)
(* comparison of the code is the same comparison cross-multiplied, so it   *)
(* is decided exactly (floating-point rounding is not modelled).           *)
(***************************************************************************)
EXTENDS Integers, Sequences, FiniteSets, TLC

----------------------------------------------------------------------------
(* Bounds of the model *)

NBars == 7          \* bars in the input series
MaxTrials == 2      \* ransac_trials of the modelled configurations

(* Program constants (trendline.py, "Tunables") *)
BreakTolNum == 3            \* BREAK_TOL_FRAC = 0.0015 = 3/2000
BreakTolDen == 2000
SlopeEpsDen == 1000000      \* SLOPE_EPS = 1e-6 = 1/SlopeEpsDen

----------------------------------------------------------------------------
(* Small arithmetic helpers (numpy / builtins) *)

Abs(a) == IF a < 0 THEN -a ELSE a
Min2(a, b) == IF a <= b THEN a ELSE b
Max2(a, b) == IF a >= b THEN a ELSE b
SetMin(S) == CHOOSE a \in S : \A b \in S : a <= b
SetMax(S) == CHOOSE a \in S : \A b \in S : a >= b

RECURSIVE Gcd(_, _)
Gcd(a, b) == IF b = 0 THEN a ELSE Gcd(b, a % b)

\* a fraction n/d (d # 0) in lowest terms with positive denominator
Frac(n, d) ==
    LET s == IF d < 0 THEN -1 ELSE 1
        g == Gcd(Abs(n), Abs(d))
    IN  [n |-> (s * n) \div g, d |-> (s * d) \div g]

RECURSIVE SeqSum(_)
SeqSum(s) == IF s = <<>> THEN 0 ELSE Head(s) + SeqSum(Tail(s))

RECURSIVE SetToSeq(_)
SetToSeq(S) == IF S = {} THEN <<>>
               ELSE LET a == SetMin(S) IN <<a>> \o SetToSeq(S \ {a})

----------------------------------------------------------------------------
(* Inputs: the OHLC table handed to TrendlineIndicator.__init__ and its    *)
(* keyword arguments.  A series is a ramp (Base + drift * i) with one of a  *)
(* few bar shapes on every bar; a shape gives the offsets of low, high and  *)
(* close from the ramp.                                                    *)

Base == 20
Drifts == {0, 1}
Shapes == {
    [lo |-> -1, hi |-> 1, cl |-> 0],     \* quiet bar
    [lo |-> -1, hi |-> 3, cl |-> 2],     \* spike up
    [lo |-> -3, hi |-> 1, cl |-> -2],    \* spike down
    [lo |-> -4, hi |-> 4, cl |-> 0] }    \* wide bar
Quiet == [lo |-> -1, hi |-> 1, cl |-> 0]

Bars == 0..(NBars - 1)

\* the first bar is quiet: it can never be a pivot (lookback >= 1)
Words == {w \in [Bars -> Shapes] : w[0] = Quiet}

\* pivot_dedupe_frac, ransac_tol_frac as fractions
DedupeDefault == [num |-> 5, den |-> 1000]      \* PIVOT_DEDUPE_FRAC
DedupeCoarse  == [num |-> 1, den |-> 10]
RansacTolDefault == [num |-> 3, den |-> 1000]   \* RANSAC_TOL_FRAC
RansacTolCoarse  == [num |-> 5, den |-> 100]

\* two bundles of the numeric keyword arguments
Profiles == {
    [min_span_bars |-> 2, ransac_min_inliers |-> 2, projection_bars |-> 2,
     enforce_direction |-> FALSE, pivot_dedupe_frac |-> DedupeDefault,
     ransac_tol_frac |-> RansacTolCoarse, window_size |-> 2,
     max_lines_per_side |-> 2, tolerance |-> [num |-> 15, den |-> 10000]],
    [min_span_bars |-> 3, ransac_min_inliers |-> 2, projection_bars |-> 0,
     enforce_direction |-> TRUE, pivot_dedupe_frac |-> DedupeCoarse,
     ransac_tol_frac |-> RansacTolDefault, window_size |-> 3,
     max_lines_per_side |-> 1, tolerance |-> [num |-> 1, den |-> 100]] }

\* the lookback lists, each with the profiles it is run under
Setups == { [lookbacks |-> <<1>>, profiles |-> Profiles],
            [lookbacks |-> <<1, 2>>,
             profiles |-> {p \in Profiles : ~p.enforce_direction}] }

Configs == UNION { {
    [lookbacks |-> u.lookbacks, algo |-> a,
     tolerance |-> p.tolerance,
     min_span_bars |-> p.min_span_bars,
     window_size |-> p.window_size,
     max_windows_per_side |-> 2,                 \* MAX_WINDOWS_PER_SIDE
     pivot_dedupe_frac |-> p.pivot_dedupe_frac,
     enforce_direction |-> p.enforce_direction,
     projection_bars |-> p.projection_bars,
     ransac_trials |-> MaxTrials,
     ransac_tol_frac |-> p.ransac_tol_frac,
     ransac_min_inliers |-> p.ransac_min_inliers,
     max_lines_per_side |-> p.max_lines_per_side] :
    a \in {"pivot_ransac", "window"}, p \in u.profiles } : u \in Setups }

----------------------------------------------------------------------------
VARIABLES
    df,          \* self.df: [high, low, close : Bars -> price]
    cfg,         \* the keyword arguments of __init__
    pc,          \* position of the computation
    lbk,         \* _collect_pivots: position in self.lookbacks
    bar,         \* _find_pivots: loop variable i
    highs, lows, \* _find_pivots: the lists of the running call
    all_highs, all_lows,   \* _collect_pivots: pooled pivots
    piv,         \* result of _collect_pivots: [hi, lo : sequence of pivots]
    side,        \* side being built
    rnd,         \* _compute_pivot_ransac: rounds started on this side
    used,        \* used_mask: positions of the side's pivots already retired
    trial,       \* _ransac_line: trials drawn
    best,        \* _ransac_line: best (m, c, mask) so far and its count
    lines_side,  \* lines of the side under construction
    lines,       \* self.lines
    run,         \* how many times the indicator was constructed on df, cfg
    prev_lines,  \* self.lines of the previous construction
    tl,          \* a Trendline object of classes/Trendline.py (legacy scorer)
    an,          \* a TrendlineAnalyzer object (classes/TrendlineAnalyzer.py)
    ak,          \* analyze: pivot pairs (i, j) already visited
    trendlines,  \* analyze: the local list trendlines
    ret,         \* analyze: the returned list
    ind,         \* a classes/indicators/TrendlineIndicator object's arguments
    raw_lines,   \* its _compute: raw_lines
    ck,          \* its _compute: raw lines already placed in a cluster
    clusters,    \* its _compute: clusters
    self_trendlines,   \* its self.trendlines
    out,         \* value returned by to_lightweight
    bt,          \* a Backtester object and the locals of its run
    registry     \* indicator_service: the registry of indicator instances

vars == <<df, cfg, pc, lbk, bar, highs, lows, all_highs, all_lows, piv, side,
          rnd, used, trial, best, lines_side, lines, run, prev_lines, tl,
          an, ak, trendlines, ret, ind, raw_lines, ck, clusters,
          self_trendlines, out, bt, registry>>

\* state of the legacy classes, untouched by TrendlineIndicator
legacy == <<tl, an, ak, trendlines, ret, ind, raw_lines, ck, clusters,
            self_trendlines>>

\* what _compute never writes: the legacy classes and to_lightweight's result
outside == <<out, legacy, bt, registry>>

\* the locals and attributes that _compute writes
computed == <<lbk, bar, highs, lows, all_highs, all_lows, piv, side, rnd,
              used, trial, best, lines_side, lines, run, prev_lines>>

\* len(self.df.index) and the position of the last bar (xs[-1])
N == Cardinality(DOMAIN df.close)
last == N - 1

----------------------------------------------------------------------------
(* Pivots: TrendlineIndicator._find_pivots / PivotDetector._find_pivots *)

\* series.iloc[i-lookback : i+lookback+1].drop(ts)
Window(i, lookback) == ((i - lookback)..(i + lookback)) \ {i}

\* variant: only the high list is consulted
NearAnyHighsOnly(px, hs, ls, frac) ==
    \E k \in 1..Len(hs) :
        LET p == hs[k].p IN
        IF p > 0 THEN Abs(px - p) * frac.den < frac.num * p
                 ELSE px = p

\* near_any(px): px within pivot_dedupe_frac of an accepted pivot, the
\* distance being relative to the accepted pivot's price p: 
\* abs(px - p) / max(p, 1e-9) < frac
NearAny(px, hs, ls, frac) ==
    \E k \in 1..Len(hs \o ls) :
        LET p == (hs \o ls)[k].p IN
        IF p > 0 THEN Abs(px - p) * frac.den < frac.num * p
                 ELSE px = p

\* variant: a bar that equals the maximum of its window is a high pivot
IsHighPivotBarNonStrict(i, lookback) ==
    /\ Window(i, lookback) # {}
    /\ df.high[i] >= SetMax({df.high[k] : k \in Window(i, lookback)})

\* hi > window.max(), lo < window.min(); the max or min of an empty window
\* (lookback 0) is NaN and every comparison with NaN is False
IsHighPivotBar(i, lookback) ==
    /\ Window(i, lookback) # {}
    /\ df.high[i] > SetMax({df.high[k] : k \in Window(i, lookback)})
IsLowPivotBar(i, lookback) ==
    /\ Window(i, lookback) # {}
    /\ df.low[i] < SetMin({df.low[k] : k \in Window(i, lookback)})

\* the high list after the high test of bar i
HighsAfter(i, lookback, hs, ls) ==
    IF IsHighPivotBar(i, lookback)
       /\ ~NearAny(df.high[i], hs, ls, cfg.pivot_dedupe_frac)
    THEN Append(hs, [i |-> i, p |-> df.high[i]])
    ELSE hs

\* variant: the low test as an elif of the high test (as in
\* strategy.find_pivots_multiple_lookbacks)
LowsAfterElif(i, lookback, hs, ls) ==
    IF IsHighPivotBar(i, lookback) THEN ls
    ELSE IF IsLowPivotBar(i, lookback)
            /\ ~NearAny(df.low[i], hs, ls, cfg.pivot_dedupe_frac)
    THEN Append(ls, [i |-> i, p |-> df.low[i]])
    ELSE ls

\* the low list after the low test of bar i; hs already holds the bar's high
\* when that was accepted (two separate ifs)
LowsAfter(i, lookback, hs, ls) ==
    IF IsLowPivotBar(i, lookback)
       /\ ~NearAny(df.low[i], hs, ls, cfg.pivot_dedupe_frac)
    THEN Append(ls, [i |-> i, p |-> df.low[i]])
    ELSE ls

Lookback == cfg.lookbacks[lbk]

\* one iteration of "for i in range(lookback, len(idx) - lookback)"
PivotBar ==
    /\ pc = "find_pivots"
    /\ bar < N - Lookback
    /\ LET hs == HighsAfter(bar, Lookback, highs, lows) IN
         /\ highs' = hs
         /\ lows' = LowsAfter(bar, Lookback, hs, lows)
    /\ bar' = bar + 1
    /\ UNCHANGED <<df, cfg, pc, lbk, all_highs, all_lows, piv, side, rnd,
                   used, trial, best, lines_side, lines, run, prev_lines, outside>>

\* stable sort of pivots by timestamp (list.sort(key=lambda x: x[0]))
RECURSIVE InsertByIdx(_, _)
InsertByIdx(s, e) ==
    IF s = <<>> THEN <<e>>
    ELSE IF s[Len(s)].i <= e.i THEN Append(s, e)
    ELSE Append(InsertByIdx(SubSeq(s, 1, Len(s) - 1), e), s[Len(s)])

RECURSIVE SortByIdx(_)
SortByIdx(s) ==
    IF s = <<>> THEN <<>>
    ELSE InsertByIdx(SortByIdx(SubSeq(s, 1, Len(s) - 1)), s[Len(s)])

\* return of _find_pivots into the loop of _collect_pivots; after the last
\* lookback the pooled lists are sorted and _compute goes on with the
\* configured algorithm.  _compute_pivot_ransac then reads xs[-1]
\* (last = int(xs[-1])), an IndexError on a table without bars.
PivotReturn ==
    /\ pc = "find_pivots"
    /\ bar >= N - Lookback
    /\ all_highs' = all_highs \o highs
    /\ all_lows' = all_lows \o lows
    /\ highs' = <<>>
    /\ lows' = <<>>
    /\ IF lbk < Len(cfg.lookbacks)
       THEN /\ lbk' = lbk + 1
            /\ bar' = cfg.lookbacks[lbk + 1]
            /\ UNCHANGED <<pc, piv>>
       ELSE /\ piv' = [hi |-> SortByIdx(all_highs'), lo |-> SortByIdx(all_lows')]
            /\ pc' = IF cfg.algo # "pivot_ransac" THEN "build_side"
                     ELSE IF N = 0 THEN "raised" ELSE "round"
            /\ UNCHANGED <<lbk, bar>>
    /\ UNCHANGED <<df, cfg, side, rnd, used, trial, best, lines_side, lines,
                   run, prev_lines, outside>>

----------------------------------------------------------------------------
(* Line geometry shared by both paths.  A line is price = (m.n / m.d) * x + *)
(* c / m.d with m.d > 0; LineAt is the line price scaled by m.d.            *)

LineAt(m, c, x) == m.n * x + c

\* np.polyfit(x, y, 1)[0]: least-squares slope of the points (xs[k], ys[k])
OlsSlope(xs, ys) ==
    LET n   == Len(xs)
        sx  == SeqSum(xs)
        sy  == SeqSum(ys)
        sxy == SeqSum([k \in 1..n |-> xs[k] * ys[k]])
        sxx == SeqSum([k \in 1..n |-> xs[k] * xs[k]])
    IN  Frac(n * sxy - sx * sy, n * sxx - sx * sx)

\* variant: min and max exchanged
EnvelopeInterceptSwapped(sd, m, xs, ys) ==
    LET c_vec == {m.d * ys[k] - m.n * xs[k] : k \in 1..Len(xs)}
    IN  IF sd = "resistance" THEN SetMax(c_vec) ELSE SetMin(c_vec)

\* c_vec = y - m * x (scaled by m.d); resistance takes its min (line <= highs),
\* support its max (line >= lows)
EnvelopeIntercept(sd, m, xs, ys) ==
    LET c_vec == {m.d * ys[k] - m.n * xs[k] : k \in 1..Len(xs)}
    IN  IF sd = "resistance" THEN SetMin(c_vec) ELSE SetMax(c_vec)

None == -1

\* _first_break: first bar from start_i whose high is above line * (1 + tol)
\* (resistance) or whose low is below line * (1 - tol) (support)
FirstBreak(sd, m, c, start_i) ==
    LET hits == {x \in start_i..last :
                   IF sd = "resistance"
                   THEN df.high[x] * m.d * BreakTolDen
                          > LineAt(m, c, x) * (BreakTolDen + BreakTolNum)
                   ELSE df.low[x] * m.d * BreakTolDen
                          < LineAt(m, c, x) * (BreakTolDen - BreakTolNum)}
    IN  IF hits # {} THEN SetMin(hits) ELSE None

\* seg_to = int(break_i) if (break_i is not None and break_i > seg_from) else last
SegTo(break_i, seg_from) ==
    IF break_i # None /\ break_i > seg_from THEN break_i ELSE last

\* slope of the closes over seg_from..seg_to (np.polyfit of close on arange)
LocalSlope(seg_from, seg_to) ==
    LET xs == [k \in 1..(seg_to - seg_from + 1) |-> seg_from + k - 1]
        ys == [k \in 1..(seg_to - seg_from + 1) |-> df.close[seg_from + k - 1]]
    IN  OlsSlope(xs, ys)

\* the direction filter: a down line over a span that is not a down move, or
\* an up line over a span that is not an up move
DirectionRejects(m, seg_from, seg_to) ==
    /\ cfg.enforce_direction
    /\ seg_to > seg_from
    /\ LET lm == LocalSlope(seg_from, seg_to) IN
         \/ (m.n * SlopeEpsDen < -m.d /\ lm.n * SlopeEpsDen >= -lm.d)
         \/ (m.n * SlopeEpsDen >  m.d /\ lm.n * SlopeEpsDen <=  lm.d)

\* variant: the bar range widened by the touch tolerance
TouchesWithTolerance(m, c, a, b) ==
    SetToSeq({x \in a..b :
        /\ df.low[x] * m.d * (cfg.tolerance.den - cfg.tolerance.num)
             <= LineAt(m, c, x) * cfg.tolerance.den
        /\ LineAt(m, c, x) * cfg.tolerance.den
             <= df.high[x] * m.d * (cfg.tolerance.den + cfg.tolerance.num)})

\* near = (low <= line) & (line <= high) on the bars a..b, in bar order
Touches(m, c, a, b) ==
    SetToSeq({x \in a..b : /\ df.low[x] * m.d <= LineAt(m, c, x)
                           /\ LineAt(m, c, x) <= df.high[x] * m.d})

----------------------------------------------------------------------------
(* RANSAC path: _ransac_line and _compute_pivot_ransac *)

\* pivots of the side being built (piv_idx, piv_px)
P == IF side = "resistance" THEN piv.hi ELSE piv.lo

\* avail = ~used_mask, as positions of P
Avail == {k \in 1..Len(P) : k \notin used}

\* best = (None, None, None), best_count = 0.  top and first are not values
\* of the code: they keep the largest inlier count of the masks drawn so far
\* in the call and the first mask drawn with that count, which the
\* properties below compare with what the code keeps.
NoBest == [cnt |-> 0, mask |-> {}, top |-> 0, first |-> {}]

\* variant: the latest trial replaces the best whatever its count
KeepLast(b, mask) == [b EXCEPT !.cnt = Cardinality(mask), !.mask = mask]

\* "if cnt > best_count: best = (m, c, mask); best_count = cnt"
KeepBest(b, mask) ==
    IF Cardinality(mask) > b.cnt
    THEN [b EXCEPT !.cnt = Cardinality(mask), !.mask = mask]
    ELSE b

\* the record of the masks drawn, after one more mask
Drawn(b, mask) ==
    [b EXCEPT !.top = Max2(@, Cardinality(mask)),
              !.first = IF Cardinality(mask) > b.top THEN mask ELSE @]

\* the inlier rule of one trial through pivots i, j (x[i] # x[j]):
\* |y - yhat| / max(|yhat|, 1e-9) <= tol_frac, with yhat scaled by dx
IsInlier(k, i, j, tol) ==
    LET dx   == P[j].i - P[i].i
        dy   == P[j].p - P[i].p
        yhat == dy * (P[k].i - P[i].i) + P[i].p * dx
        err  == Abs(P[k].p * dx - yhat)
    IN  IF yhat # 0 THEN err * tol.den <= tol.num * Abs(yhat)
                    ELSE err = 0

TrialMask(i, j) == {k \in Avail : IsInlier(k, i, j, cfg.ransac_tol_frac)}

\* head of "for _ in range(self.max_lines_per_side)": the round starts, or
\* the loop over rounds ends (range exhausted, too few pivots, span too short,
\* or _ransac_line returning None for n < 2)
\* variant: the round loop not bounded by max_lines_per_side
RoundBeginUncapped ==
    /\ pc = "round"
    /\ IF \/ Cardinality(Avail) < cfg.ransac_min_inliers
          \/ SetMax({P[k].i : k \in Avail}) - SetMin({P[k].i : k \in Avail})
               < cfg.min_span_bars
          \/ Cardinality(Avail) < 2
       THEN /\ pc' = "side_end"
            /\ UNCHANGED <<rnd, trial, best>>
       ELSE /\ pc' = "trial"
            /\ rnd' = rnd + 1
            /\ trial' = 0
            /\ best' = NoBest
    /\ UNCHANGED <<df, cfg, lbk, bar, highs, lows, all_highs, all_lows, piv,
                   side, used, lines_side, lines, run, prev_lines, outside>>

RoundBegin ==
    /\ pc = "round"
    /\ IF \/ rnd >= cfg.max_lines_per_side
          \/ Cardinality(Avail) < cfg.ransac_min_inliers
          \/ SetMax({P[k].i : k \in Avail}) - SetMin({P[k].i : k \in Avail})
               < cfg.min_span_bars
          \/ Cardinality(Avail) < 2
       THEN /\ pc' = "side_end"
            /\ UNCHANGED <<rnd, trial, best>>
       ELSE /\ pc' = "trial"
            /\ rnd' = rnd + 1
            /\ trial' = 0
            /\ best' = NoBest
    /\ UNCHANGED <<df, cfg, lbk, bar, highs, lows, all_highs, all_lows, piv,
                   side, used, lines_side, lines, run, prev_lines, outside>>

\* one trial of _ransac_line: i, j = rng.choice(n, size=2, replace=False)
Trial ==
    /\ pc = "trial"
    /\ trial < cfg.ransac_trials
    /\ \E i \in Avail, j \in Avail :
         /\ i # j
         /\ IF P[j].i = P[i].i
            THEN best' = best
            ELSE LET mask == TrialMask(i, j)
                 IN  best' = Drawn(KeepBest(best, mask), mask)
    /\ trial' = trial + 1
    /\ UNCHANGED <<df, cfg, pc, lbk, bar, highs, lows, all_highs, all_lows,
                   piv, side, rnd, used, lines_side, lines, run, prev_lines, outside>>

\* variant: the solid part runs to the last inlier whatever the break
SolidToLastInlier(seg_to, in_max) == in_max

\* solid_to = int(min(seg_to, in_idx.max()))
SolidTo(seg_to, in_max) == Min2(seg_to, in_max)

\* variant: projection not clipped to the series
ProjToUnclipped(solid_to) == solid_to + cfg.projection_bars

\* proj_to = int(min(last, solid_to + self.projection_bars))
ProjTo(solid_to) == Min2(last, solid_to + cfg.projection_bars)

\* the record appended to lines_side for the inlier positions inl of P.
\* px, py and seg_to are not fields of the code's dict: they keep the covered
\* pivots (xw[in_mask], yw[in_mask]) and the local seg_to of the round, which
\* the properties below speak about.
RansacLine(inl) ==
    LET ps       == SetToSeq(inl)
        xs       == [k \in 1..Len(ps) |-> P[ps[k]].i]
        ys       == [k \in 1..Len(ps) |-> P[ps[k]].p]
        m_hat    == OlsSlope(xs, ys)
        c        == EnvelopeIntercept(side, m_hat, xs, ys)
        seg_from == SetMin({P[k].i : k \in inl})
        seg_to   == SegTo(FirstBreak(side, m_hat, c, seg_from), seg_from)
        solid_to == SolidTo(seg_to, SetMax({P[k].i : k \in inl}))
    IN  [side |-> side, m |-> m_hat, c |-> c,
         i_from |-> seg_from, i_solid |-> solid_to, i_proj |-> ProjTo(solid_to),
         touches |-> Touches(m_hat, c, seg_from, solid_to),
         px |-> xs, py |-> ys, seg_to |-> seg_to]

\* variant: the inliers of a round are not retired
RetireNone(inl) == used

\* used_mask[np.isin(X, in_idx)] = True
Retire(inl) == used \cup {k \in 1..Len(P) : \E q \in inl : P[k].i = P[q].i}

\* end of _ransac_line and the rest of the round: no line (break), a line
\* dropped by the direction filter (continue), or a line appended
RoundFinish ==
    /\ pc = "trial"
    /\ trial = cfg.ransac_trials
    /\ IF best.cnt < cfg.ransac_min_inliers
       THEN /\ pc' = "side_end"
            /\ UNCHANGED <<used, lines_side>>
       ELSE LET L == RansacLine(best.mask) IN
            /\ pc' = "round"
            /\ used' = Retire(best.mask)
            /\ IF DirectionRejects(L.m, L.i_from, L.seg_to)
               THEN lines_side' = lines_side
               ELSE lines_side' = Append(lines_side, L)
    /\ UNCHANGED <<df, cfg, lbk, bar, highs, lows, all_highs, all_lows, piv,
                   side, rnd, trial, best, lines, run, prev_lines, outside>>

\* lines_side.sort(key=lambda d: d["i_from"], reverse=True): stable
RECURSIVE InsertByFromDesc(_, _)
InsertByFromDesc(s, e) ==
    IF s = <<>> THEN <<e>>
    ELSE IF s[Len(s)].i_from >= e.i_from THEN Append(s, e)
    ELSE Append(InsertByFromDesc(SubSeq(s, 1, Len(s) - 1), e), s[Len(s)])

RECURSIVE SortByFromDesc(_)
SortByFromDesc(s) ==
    IF s = <<>> THEN <<>>
    ELSE InsertByFromDesc(SortByFromDesc(SubSeq(s, 1, Len(s) - 1)), s[Len(s)])

\* end of a side: sort, extend self.lines, go on with the support side
SideEnd ==
    /\ pc = "side_end"
    /\ lines' = lines \o SortByFromDesc(lines_side)
    /\ lines_side' = <<>>
    /\ used' = {}
    /\ rnd' = 0
    /\ IF side = "resistance"
       THEN side' = "support" /\ pc' = "round"
       ELSE side' = side /\ pc' = "done"
    /\ UNCHANGED <<df, cfg, lbk, bar, highs, lows, all_highs, all_lows, piv,
                   trial, best, run, prev_lines, outside>>

----------------------------------------------------------------------------
(* Window / regression path: _fit_envelope and _build_side *)

\* the (start, end) slices chosen from the end of n pivots, most recent first
RECURSIVE WindowsFrom(_, _)
WindowsFrom(end, left) ==
    LET start == Max2(0, end - cfg.window_size) IN
    IF left = 0 \/ end - start < cfg.window_size THEN <<>>
    ELSE <<[a |-> start, b |-> end]>> \o WindowsFrom(start, left - 1)

\* _fit_envelope: OLS slope, then the intercept shifted to hug the pivots
FitEnvelope(sd, xs, ys) ==
    LET m == OlsSlope(xs, ys)
    IN  [m |-> m, c |-> EnvelopeIntercept(sd, m, xs, ys)]

\* what one window adds to out: the TL dataclass object (side, slope,
\* intercept, i_from, i_to, touches) built from the pivots pv[a+1..b]
\* (python slice a:b), or nothing when the window is skipped (span too short,
\* direction filter); px, py and seg_to are kept as in RansacLine
WindowLine(sd, pv, w) ==
    LET xs       == [k \in 1..(w.b - w.a) |-> pv[w.a + k].i]
        ys       == [k \in 1..(w.b - w.a) |-> pv[w.a + k].p]
        fit      == FitEnvelope(sd, xs, ys)
        seg_from == xs[1]
        seg_to   == SegTo(FirstBreak(sd, fit.m, fit.c, seg_from), seg_from)
    IN  IF xs[Len(xs)] - xs[1] < cfg.min_span_bars THEN <<>>
        ELSE IF DirectionRejects(fit.m, seg_from, seg_to) THEN <<>>
        ELSE <<[side |-> sd, slope |-> fit.m, intercept |-> fit.c,
              i_from |-> seg_from, i_to |-> seg_to,
              touches |-> Touches(fit.m, fit.c, seg_from, seg_to),
              px |-> xs, py |-> ys, seg_to |-> seg_to]>>

RECURSIVE WindowLines(_, _, _)
WindowLines(sd, pv, ws) ==
    IF ws = <<>> THEN <<>>
    ELSE WindowLine(sd, pv, Head(ws)) \o WindowLines(sd, pv, Tail(ws))

\* _build_side
BuildSideLines(sd, pv) ==
    IF Len(pv) < cfg.window_size THEN <<>>
    ELSE WindowLines(sd, pv, WindowsFrom(Len(pv), cfg.max_windows_per_side))

\* _compute, non-RANSAC branch: one call of _build_side
BuildSide ==
    /\ pc = "build_side"
    /\ lines' = lines \o BuildSideLines(side, P)
    /\ IF side = "resistance"
       THEN side' = "support" /\ pc' = "build_side"
       ELSE side' = side /\ pc' = "done"
    /\ UNCHANGED <<df, cfg, lbk, bar, highs, lows, all_highs, all_lows, piv,
                   rnd, used, trial, best, lines_side, run, prev_lines, outside>>

----------------------------------------------------------------------------
(* The indicator is constructed on (df, cfg); it may be constructed again   *)
(* on the same table with the same arguments.                              *)

MaxRuns == 2

SeriesOf(w, d) ==
    [high  |-> [i \in DOMAIN w |-> Base + d * i + w[i].hi],
     low   |-> [i \in DOMAIN w |-> Base + d * i + w[i].lo],
     close |-> [i \in DOMAIN w |-> Base + d * i + w[i].cl]]

NoTrendline == [score |-> None]

\* no TrendlineAnalyzer, no legacy indicator, no to_lightweight call yet
NoAnalyzer == [pivots |-> <<>>]
NoIndicator == [lookbacks |-> <<>>]
NoOutput == [segments |-> <<>>, markers |-> <<>>,
             plot |-> [off |-> 0, n |-> 0]]

\* no Backtester and no indicator service
NoBacktest == [trades |-> <<>>]
NoRegistry == [ids |-> {}]
ApartIdle == bt = NoBacktest /\ registry = NoRegistry

AnalyzerIdle == an = NoAnalyzer /\ ak = 0 /\ trendlines = <<>> /\ ret = <<>>
ClusterIdle ==
    /\ ind = NoIndicator /\ raw_lines = <<>> /\ ck = 0
    /\ clusters = <<>> /\ self_trendlines = <<>>

\* state at the entry of _compute (end of __init__'s assignments)
Start ==
    /\ pc = "find_pivots"
    /\ lbk = 1
    /\ bar = cfg.lookbacks[1]
    /\ highs = <<>> /\ lows = <<>>
    /\ all_highs = <<>> /\ all_lows = <<>>
    /\ piv = [hi |-> <<>>, lo |-> <<>>]
    /\ side = "resistance"
    /\ rnd = 0
    /\ used = {}
    /\ trial = 0
    /\ best = NoBest
    /\ lines_side = <<>>
    /\ lines = <<>>

Init ==
    /\ \E w \in Words, d \in Drifts : df = SeriesOf(w, d)
    /\ cfg \in Configs
    /\ run = 1
    /\ prev_lines = <<>>
    /\ tl = NoTrendline
    /\ AnalyzerIdle /\ ClusterIdle /\ out = NoOutput /\ ApartIdle
    /\ Start

\* TrendlineIndicator(df, **cfg) once more
Reconstruct ==
    /\ pc = "done"
    /\ run < MaxRuns
    /\ run' = run + 1
    /\ prev_lines' = lines
    /\ pc' = "find_pivots"
    /\ lbk' = 1
    /\ bar' = cfg.lookbacks[1]
    /\ highs' = <<>> /\ lows' = <<>>
    /\ all_highs' = <<>> /\ all_lows' = <<>>
    /\ piv' = [hi |-> <<>>, lo |-> <<>>]
    /\ side' = "resistance"
    /\ rnd' = 0
    /\ used' = {}
    /\ trial' = 0
    /\ best' = NoBest
    /\ lines_side' = <<>>
    /\ lines' = <<>>
    /\ UNCHANGED <<df, cfg, outside>>

\* one construction: __init__ up to the return of _compute
Next ==
    \/ PivotBar
    \/ PivotReturn
    \/ RoundBegin
    \/ Trial
    \/ RoundFinish
    \/ SideEnd
    \/ BuildSide

Spec == Init /\ [][Next]_vars

\* the indicator constructed up to MaxRuns times on the same inputs
NextAgain ==
    \/ PivotBar
    \/ PivotReturn
    \/ RoundBegin
    \/ Trial
    \/ RoundFinish
    \/ SideEnd
    \/ BuildSide
    \/ Reconstruct

SpecAgain == Init /\ [][NextAgain]_vars

----------------------------------------------------------------------------
(* The indicator on short tables (no bar at all up to MaxShort bars) and    *)
(* with keyword arguments outside their documented range.  __init__ stores *)
(* its arguments without looking at them, so every such call arrives at    *)
(* _compute.                                                               *)

MaxShort == 5       \* bars of the longest short table

ShortWords ==
    UNION { {w \in [0..(n - 1) -> Shapes] : n > 0 => w[0] = Quiet} :
            n \in 0..MaxShort }

\* lookback < 1 or max_lines_per_side < 1
InvalidConfig(c) ==
    \/ \E k \in 1..Len(c.lookbacks) : c.lookbacks[k] < 1
    \/ c.max_lines_per_side < 1

ShortConfigs ==
    LET one == {c \in Configs : c.lookbacks = <<1>>} IN
    one \cup {[c EXCEPT !.lookbacks = <<0>>] : c \in one}
        \cup {[c EXCEPT !.max_lines_per_side = 0] : c \in one}

InitShort ==
    /\ \E w \in ShortWords, d \in Drifts : df = SeriesOf(w, d)
    /\ cfg \in ShortConfigs
    /\ run = 1
    /\ prev_lines = <<>>
    /\ tl = NoTrendline
    /\ AnalyzerIdle /\ ClusterIdle /\ out = NoOutput /\ ApartIdle
    /\ Start

SpecShort == InitShort /\ [][Next]_vars

----------------------------------------------------------------------------
(* Legacy scorer: classes/Trendline.py.  A Trendline object is modelled by  *)
(* the attributes __init__ computes before the score:                      *)
(*   r_squared   in thousandths (a squared correlation, 0..1000)           *)
(*   n_points    len(self.points)                                           *)
(*   length      days between start_date and end_date                      *)
(*   angle       abs(degrees(arctan(slope))), whole degrees in 0..89       *)
(*   proximity   in thousandths                                            *)
(*   violations  count of closes off the line                              *)
(* and score, a numerator over ScoreDen (None before it is computed).      *)

MaxPoints == 16      \* most pivots on one legacy trendline

\* common denominator of the four weighted terms (1000, 10, 365, 45 and the
\* weights' 10), times 4 for the two halvings
TermDen == 1000 * 657
ScoreDen == 4 * 10 * TermDen

\* _calculate_score
CalculateScore(t) ==
    LET norm_len   == Min2(365, t.length)                     \* * 1/365
        norm_angle == 45 - Min2(Abs(t.angle - 45), 45)        \* * 1/45
        score      == 4 * ( 1 * t.r_squared * (TermDen \div 1000)
                          + 4 * t.n_points * (TermDen \div 10)
                          + 3 * norm_len * (TermDen \div 365)
                          + 2 * norm_angle * (TermDen \div 45) )
        s1 == IF t.proximity > 10 THEN score \div 2 ELSE score
        \* violation_ratio = violations / max(1, length)
        s2 == IF 4 * t.violations > Max2(1, t.length) THEN s1 \div 2 ELSE s1
    IN  IF 2 * t.violations > Max2(1, t.length) THEN 0 ELSE s2

\* two points always correlate perfectly
Trendlines ==
    {t \in [r_squared : {0, 500, 1000}, n_points : 2..MaxPoints,
            length : {0, 90, 365, 500}, angle : {0, 30, 45, 60, 89},
            proximity : {0, 10, 11}, violations : {0, 30, 100},
            score : {None}] :
        t.n_points = 2 => t.r_squared = 1000}

\* Trendline.__init__, last assignment: self.score = self._calculate_score()
ScoreTrendline ==
    /\ pc = "legacy"
    /\ tl.score = None
    /\ tl' = [tl EXCEPT !.score = CalculateScore(tl)]
    /\ UNCHANGED <<df, cfg, pc, computed, an, ak, trendlines, ret, ind,
                   raw_lines, ck, clusters, self_trendlines, out,
                   bt, registry>>

InitScore ==
    /\ df = SeriesOf([i \in Bars |-> Quiet], 0)
    /\ cfg = CHOOSE c \in Configs : TRUE
    /\ pc = "legacy"
    /\ lbk = 1 /\ bar = 0
    /\ highs = <<>> /\ lows = <<>>
    /\ all_highs = <<>> /\ all_lows = <<>>
    /\ piv = [hi |-> <<>>, lo |-> <<>>]
    /\ side = "resistance"
    /\ rnd = 0 /\ used = {} /\ trial = 0 /\ best = NoBest
    /\ lines_side = <<>> /\ lines = <<>>
    /\ run = 1 /\ prev_lines = <<>>
    /\ AnalyzerIdle /\ ClusterIdle /\ out = NoOutput /\ ApartIdle
    /\ tl \in Trendlines

NextScore == ScoreTrendline

SpecScore == InitScore /\ [][NextScore]_vars

----------------------------------------------------------------------------
(* The RANSAC path on longer tables, where a side has more pivots than one  *)
(* round retires, under max_lines_per_side = 1 with and without the         *)
(* direction filter.                                                       *)

LongBars == 9       \* bars of a long table

\* shapes on the odd bars, quiet bars between them
LongWords ==
    {w \in [0..(LongBars - 1) -> Shapes] :
        \A i \in 0..(LongBars - 1) : i % 2 = 0 => w[i] = Quiet}

LongConfigs ==
    {[c EXCEPT !.max_lines_per_side = 1, !.enforce_direction = e,
               !.ransac_tol_frac = RansacTolDefault] :
        c \in {k \in Configs : /\ k.algo = "pivot_ransac"
                               /\ k.lookbacks = <<1>>
                               /\ k.pivot_dedupe_frac = DedupeDefault},
        e \in BOOLEAN}

InitLong ==
    /\ \E w \in LongWords, d \in Drifts : df = SeriesOf(w, d)
    /\ cfg \in LongConfigs
    /\ run = 1
    /\ prev_lines = <<>>
    /\ tl = NoTrendline
    /\ AnalyzerIdle /\ ClusterIdle /\ out = NoOutput /\ ApartIdle
    /\ Start

\* _compute on the pivot_ransac path
NextLong ==
    \/ PivotBar
    \/ PivotReturn
    \/ RoundBegin
    \/ Trial
    \/ RoundFinish
    \/ SideEnd

SpecLong == InitLong /\ [][NextLong]_vars

----------------------------------------------------------------------------
(* Constant-price tables (open = high = low = close on every bar) and       *)
(* tables that leave the constant on some bars, under every configuration.  *)

FlatBars == 7       \* bars of a table around a constant price
FlatPrices == {Base, 100}
FlatShape == [lo |-> 0, hi |-> 0, cl |-> 0]
FlatShapes == {FlatShape,
               [lo |-> -1, hi |-> 3, cl |-> 2],
               [lo |-> -4, hi |-> 4, cl |-> 0]}

FlatSeries(w, p) ==
    [high  |-> [i \in DOMAIN w |-> p + w[i].hi],
     low   |-> [i \in DOMAIN w |-> p + w[i].lo],
     close |-> [i \in DOMAIN w |-> p + w[i].cl]]

InitFlat ==
    /\ \E w \in [0..(FlatBars - 1) -> FlatShapes], p \in FlatPrices :
          df = FlatSeries(w, p)
    /\ cfg \in Configs
    /\ run = 1
    /\ prev_lines = <<>>
    /\ tl = NoTrendline
    /\ AnalyzerIdle /\ ClusterIdle /\ out = NoOutput /\ ApartIdle
    /\ Start

SpecFlat == InitFlat /\ [][Next]_vars

----------------------------------------------------------------------------
(* The keyword argument enforce_direction passed or left out.  The other    *)
(* arguments are passed as in LongConfigs; cfg records in enforce_passed    *)
(* whether the caller passed enforce_direction.                            *)

ENFORCE_DIRECTION == TRUE       \* default of the keyword argument

\* __init__: self.enforce_direction = bool(enforce_direction), the argument
\* taking its default when it is not passed
Construct(c, passed) ==
    [c EXCEPT !.enforce_direction =
                 IF passed THEN c.enforce_direction ELSE ENFORCE_DIRECTION]
      @@ [enforce_passed |-> passed]

InitDefault ==
    /\ \E w \in LongWords, d \in Drifts : df = SeriesOf(w, d)
    /\ \E c \in LongConfigs, passed \in BOOLEAN : cfg = Construct(c, passed)
    /\ run = 1
    /\ prev_lines = <<>>
    /\ tl = NoTrendline
    /\ AnalyzerIdle /\ ClusterIdle /\ out = NoOutput /\ ApartIdle
    /\ Start

SpecDefault == InitDefault /\ [][NextLong]_vars

----------------------------------------------------------------------------
(* Sequential RANSAC over several rounds: the long tables under             *)
(* max_lines_per_side = 2, with ransac_min_inliers 2 and 3.                *)

RoundConfigs ==
    {[c EXCEPT !.max_lines_per_side = 2, !.ransac_min_inliers = k] :
        c \in LongConfigs, k \in {2, 3}}

InitRounds ==
    /\ \E w \in LongWords, d \in Drifts : df = SeriesOf(w, d)
    /\ cfg \in RoundConfigs
    /\ run = 1
    /\ prev_lines = <<>>
    /\ tl = NoTrendline
    /\ AnalyzerIdle /\ ClusterIdle /\ out = NoOutput /\ ApartIdle
    /\ Start

SpecRounds == InitRounds /\ [][NextLong]_vars

----------------------------------------------------------------------------
(* Legacy pairwise path: classes/TrendlineAnalyzer.py building Trendline    *)
(* objects of classes/Trendline.py.  A date is a day number, bar i of the   *)
(* table is day i, and a timestamp is counted in days (the code's seconds   *)
(* / 86400), so a slope is in price per day.  A pivot is [t, p].            *)
(*                                                                         *)
(* Score of an analyzer-built Trendline.  With slopes of a few price units  *)
(* per day the code's angle, abs(degrees(arctan(slope per second))), is     *)
(* far below one degree, so its whole degrees are 0 and the angle term of   *)
(* the score, 0.2 * angle / 45, is proportional to |slope| and smaller than *)
(* the smallest step of the other three terms.  The record keeps the other  *)
(* terms in score (numerator over ScoreDen, exact while r_squared is 0 or   *)
(* 1) and the angle term in angle_term = |slope| times the penalty factor;  *)
(* two scores compare by score first and by angle_term among equals.       *)

OverlapNum == 1             \* overlap threshold 0.1 of analyze
OverlapDen == 10
ViolationTolNum == 1        \* tolerance = 0.01 of _calculate_violations
ViolationTolDen == 100

\* _calculate_line_parameters for two pivots of different timestamps
LineParameters(a, b) ==
    LET m == Frac(b.p - a.p, b.t - a.t)
    IN  [m |-> m, c |-> a.p * m.d - m.n * a.t]

\* _point_on_line: abs((slope * x + intercept - price) / price) <= tolerance.
\* On a price of zero the quotient of numpy.float64 operands is inf or nan
\* and the comparison False; Python floats raise (see AnalyzePair).
PointOnLine(L, q) ==
    /\ q.p # 0
    /\ Abs(LineAt(L.m, L.c, q.t) - q.p * L.m.d) * an.tolerance.den
         <= an.tolerance.num * Abs(q.p) * L.m.d

\* "for i in range(n - min_points + 1): for j in range(i + 1, n)": ak is the
\* position of the loops, the pair (i, j) coded as i * n + j
FirstPair == 1
PairsDone == (ak \div Len(an.pivots)) > Len(an.pivots) - an.min_points
NextPair ==
    LET n == Len(an.pivots)
        i == ak \div n
        j == ak % n
    IN  IF j + 1 < n THEN ak + 1 ELSE (i + 1) * n + i + 2

\* points_on_line.sort(key=timestamp): stable
RECURSIVE InsertByDate(_, _)
InsertByDate(s, e) ==
    IF s = <<>> THEN <<e>>
    ELSE IF s[Len(s)].t <= e.t THEN Append(s, e)
    ELSE Append(InsertByDate(SubSeq(s, 1, Len(s) - 1), e), s[Len(s)])

RECURSIVE SortByDate(_)
SortByDate(s) ==
    IF s = <<>> THEN <<>>
    ELSE InsertByDate(SortByDate(SubSeq(s, 1, Len(s) - 1)), s[Len(s)])

\* all x values identical: scipy's linregress raises ValueError on them in
\* its newer releases and gives r = 0 in its older ones
DegenerateX(points) == \A k \in 1..Len(points) : points[k].t = points[1].t

\* _calculate_r_squared: linregress(x, y).rvalue ** 2, in thousandths
\* (rounded down); r is 0 when x or y does not vary
RSquared(points) ==
    LET n   == Len(points)
        xs  == [k \in 1..n |-> points[k].t]
        ys  == [k \in 1..n |-> points[k].p]
        sx  == SeqSum(xs)
        sy  == SeqSum(ys)
        cov == n * SeqSum([k \in 1..n |-> xs[k] * ys[k]]) - sx * sy
        vx  == n * SeqSum([k \in 1..n |-> xs[k] * xs[k]]) - sx * sx
        vy  == n * SeqSum([k \in 1..n |-> ys[k] * ys[k]]) - sy * sy
    IN  IF vx = 0 \/ vy = 0 THEN 0
        ELSE LET a == Frac(cov, vx)
                 b == Frac(cov, vy)
             IN  (1000 * a.n * b.n) \div (a.d * b.d)

\* _calculate_proximity: abs(current_price - predicted_price) / current_price
\* in thousandths, rounded up; numpy gives nan for 0/0 (no comparison holds)
\* and inf for x/0 (kept as a value above the threshold)
Proximity(L) ==
    LET cur  == df.close[last]
        diff == Abs(cur * L.m.d - LineAt(L.m, L.c, last))
    IN  IF cur = 0 THEN (IF diff = 0 THEN 0 ELSE 1000 * diff)
        ELSE (1000 * diff + cur * L.m.d - 1) \div (cur * L.m.d)

\* _calculate_violations: closes of the dates start..end off the line by more
\* than the tolerance, relative to the close
Violations(L, start, end) ==
    Cardinality({x \in DOMAIN df.close :
        /\ start <= x /\ x <= end
        /\ LET actual == df.close[x]
               dev    == Abs(LineAt(L.m, L.c, x) - actual * L.m.d)
           IN  IF actual = 0 THEN dev # 0
               ELSE dev * ViolationTolDen > ViolationTolNum * actual * L.m.d})

\* what is left of the angle term: |slope| times the factor of the penalties
AngleTerm(L, t) ==
    LET span == Max2(1, t.length)
        k == IF 2 * t.violations > span THEN 0
             ELSE (IF t.proximity > 10 THEN 1 ELSE 2)
                  * (IF 4 * t.violations > span THEN 1 ELSE 2)
    IN  Frac(Abs(L.m.n) * k, L.m.d * 4)

\* Trendline(slope, intercept, points[0][0], points[-1][0], points, df)
MakeTrendline(L, points) ==
    LET start == points[1].t
        end   == points[Len(points)].t
        t == [slope |-> L.m, intercept |-> L.c,
              start_date |-> start, end_date |-> end, points |-> points,
              r_squared |-> RSquared(points), n_points |-> Len(points),
              length |-> end - start, angle |-> 0,
              proximity |-> Proximity(L),
              violations |-> Violations(L, start, end)]
    IN  t @@ [score |-> CalculateScore(t), angle_term |-> AngleTerm(L, t)]

\* a.score > b.score on the two parts of a score
ScoreGreater(a, b) ==
    \/ a.score > b.score
    \/ /\ a.score = b.score
       /\ a.angle_term.n * b.angle_term.d > b.angle_term.n * a.angle_term.d

\* tl.score > self.trendline_min_score
ScoreAboveMin(t) ==
    \/ t.score > an.trendline_min_score
    \/ t.score = an.trendline_min_score /\ t.angle_term.n > 0

\* len(set(tl.points) & set(existing.points))
Shared(p1, p2) ==
    Cardinality({p1[k] : k \in 1..Len(p1)} \cap {p2[k] : k \in 1..Len(p2)})

\* all(len(shared) / len(tl.points) <= 0.1 for existing in trendlines)
NoOverlap(t, kept) ==
    \A k \in 1..Len(kept) :
        Shared(t.points, kept[k].points) * OverlapDen
            <= OverlapNum * Len(t.points)

\* sorted(trendlines, key=lambda tl: tl.score, reverse=True): stable, equal
\* scores keep the order of the list
\* variant: the list left in generation order
InsertByScoreUnsorted(s, e) == Append(s, e)

RECURSIVE InsertByScore(_, _)
InsertByScore(s, e) ==
    IF s = <<>> THEN <<e>>
    ELSE IF ScoreGreater(e, s[Len(s)])
         THEN Append(InsertByScore(SubSeq(s, 1, Len(s) - 1), e), s[Len(s)])
         ELSE Append(s, e)

RECURSIVE SortByScore(_)
SortByScore(s) ==
    IF s = <<>> THEN <<>>
    ELSE InsertByScore(SortByScore(SubSeq(s, 1, Len(s) - 1)), s[Len(s)])

\* one iteration of the pair loop of analyze
AnalyzePair ==
    /\ pc = "analyze"
    /\ Len(an.pivots) >= an.min_points
    /\ ~PairsDone
    /\ LET n == Len(an.pivots)
           a == an.pivots[(ak \div n) + 1]
           b == an.pivots[(ak % n) + 1]
           skip == /\ ak' = NextPair
                   /\ UNCHANGED <<pc, trendlines>>
           fail == /\ pc' = "raised"
                   /\ UNCHANGED <<ak, trendlines>>
       IN  IF a.t = b.t THEN skip          \* slope is None: continue
           ELSE IF /\ an.prices = "float"
                   /\ \E k \in 1..n : an.pivots[k].p = 0
                THEN fail                  \* ZeroDivisionError
           ELSE LET L == LineParameters(a, b)
                    OnLine(q) == PointOnLine(L, q)
                    points == SortByDate(SelectSeq(an.pivots, OnLine))
                IN  IF Len(points) < an.min_points THEN skip
                    ELSE \/ DegenerateX(points) /\ fail
                         \/ LET t == MakeTrendline(L, points)
                            IN  /\ trendlines' =
                                     IF /\ NoOverlap(t, trendlines)
                                        /\ ScoreAboveMin(t)
                                     THEN Append(trendlines, t)
                                     ELSE trendlines
                                /\ ak' = NextPair
                                /\ pc' = pc
    /\ UNCHANGED <<df, cfg, computed, tl, an, ret, ind, raw_lines, ck,
                   clusters, self_trendlines, out,
                   bt, registry>>

\* the early "return []" and the final sorted(...)[:max_trendlines]
AnalyzeReturn ==
    /\ pc = "analyze"
    /\ Len(an.pivots) < an.min_points \/ PairsDone
    /\ ret' = IF Len(an.pivots) < an.min_points THEN <<>>
              ELSE LET s == SortByScore(trendlines)
                   IN  SubSeq(s, 1, Min2(Len(s), an.max_trendlines))
    /\ pc' = "returned"
    /\ UNCHANGED <<df, cfg, computed, tl, an, ak, trendlines, ind, raw_lines,
                   ck, clusters, self_trendlines, out,
                   bt, registry>>

MaxDays == 5        \* pivots of a generated pivot list
LongRun == 10       \* pivots of the flat run of the long pivot list
PivotPrices == {0, 10, 11}
FinalCloses == {10, 11, 12}

\* the dates of the pivots: two days, one per day, and two pivots on day 2
DaySeqs ==
    { <<0, 1>>,
      [k \in 1..MaxDays |-> k - 1],
      [k \in 1..MaxDays |-> IF k <= 3 THEN k - 1 ELSE k - 2] }

\* a decline of two pivots into a flat run of r pivots
LongPivots(r) ==
    [k \in 1..(r + 2) |-> [t |-> k - 1, p |-> IF k <= 2 THEN 13 - k ELSE 10]]

PivotLists ==
    UNION { { [k \in 1..Len(d) |-> [t |-> d[k], p |-> w[k]]] :
              w \in [1..Len(d) -> PivotPrices] } : d \in DaySeqs }
      \cup {LongPivots(LongRun - 1), LongPivots(LongRun)}

\* the table the pivots were taken from: the close of a day is the price
\* of its first pivot, and one more bar follows the last pivot
TableOf(pivots, final) ==
    LET end == pivots[Len(pivots)].t + 1
        c == [x \in 0..end |->
                 IF x = end THEN final
                 ELSE pivots[CHOOSE k \in 1..Len(pivots) :
                         /\ pivots[k].t = x
                         /\ \A j \in 1..(k - 1) : pivots[j].t # x].p]
    IN  [high |-> c, low |-> c, close |-> c]

\* TrendlineAnalyzer(df, pivots, min_points, tolerance, max_trendlines,
\* trendline_min_score); prices names the type of the pivot prices
Analyzers ==
    [pivots : PivotLists, min_points : {2, 3},
     tolerance : {[num |-> 1, den |-> 1000]},
     max_trendlines : {1, 500}, trendline_min_score : {0},
     prices : {"float", "numpy.float64"}]

\* the indicator of trendline.py takes no part
ComputeIdle ==
    /\ cfg = CHOOSE c \in Configs : TRUE
    /\ lbk = 1 /\ bar = 0
    /\ highs = <<>> /\ lows = <<>>
    /\ all_highs = <<>> /\ all_lows = <<>>
    /\ piv = [hi |-> <<>>, lo |-> <<>>]
    /\ side = "resistance"
    /\ rnd = 0 /\ used = {} /\ trial = 0 /\ best = NoBest
    /\ lines_side = <<>> /\ lines = <<>>
    /\ run = 1 /\ prev_lines = <<>>

InitAnalyze ==
    /\ an \in Analyzers
    /\ \E final \in FinalCloses : df = TableOf(an.pivots, final)
    /\ pc = "analyze"
    /\ ak = FirstPair /\ trendlines = <<>> /\ ret = <<>>
    /\ ComputeIdle /\ ClusterIdle /\ out = NoOutput /\ ApartIdle
    /\ tl = NoTrendline

NextAnalyze == AnalyzePair \/ AnalyzeReturn

SpecAnalyze == InitAnalyze /\ [][NextAnalyze]_vars

----------------------------------------------------------------------------
(* Class-based indicator: classes/indicators/TrendlineIndicator.py.  Pivots *)
(* of the closes, a raw line through every two pivots of a kind, greedy     *)
(* clustering of the raw lines by slope and intercept, one averaged line    *)
(* per cluster.  Slopes, intercepts and tolerances are fractions n/d.       *)

RSub(a, b) == Frac(a.n * b.d - b.n * a.d, a.d * b.d)
RAbs(a) == [n |-> Abs(a.n), d |-> a.d]
RLeq(a, b) == a.n * b.d <= b.n * a.d

RECURSIVE RSum(_)
RSum(s) ==
    IF s = <<>> THEN [n |-> 0, d |-> 1]
    ELSE LET r == RSum(Tail(s))
         IN  Frac(Head(s).n * r.d + r.n * Head(s).d, Head(s).d * r.d)

\* float(np.mean(values))
RMean(s) == LET t == RSum(s) IN Frac(t.n, t.d * Len(s))

\* _find_pivots(lookback) of the class-based indicator: the bars whose close
\* is the maximum (minimum) of the closes lookback bars either way
ClosePivots(lookback, kind) ==
    SetToSeq({i \in lookback..(N - lookback - 1) :
        \A x \in (i - lookback)..(i + lookback) :
            IF kind = "highs" THEN df.close[x] <= df.close[i]
            ELSE df.close[x] >= df.close[i]})

\* the line linregress fits through the closes of the bars i and j, its
\* touches and violations over all bars; no line when the touches are fewer
\* than min_touches
RawLine(i, j, lb) ==
    LET m == Frac(df.close[j] - df.close[i], j - i)
        c == df.close[i] * m.d - m.n * i
        touches == SetToSeq({x \in DOMAIN df.close :
            Abs(df.close[x] * m.d - (m.n * x + c)) * ind.tolerance.den
                <= ind.tolerance.num * df.close[x] * m.d})
    IN  IF Len(touches) < ind.min_touches THEN <<>>
        ELSE << [slope |-> m, intercept |-> Frac(c, m.d),
                 r2 |-> IF df.close[i] = df.close[j] THEN 0 ELSE 1,
                 touches |-> touches, violations |-> N - Len(touches),
                 lookback |-> lb] >>

\* "for i in range(len(pts)): for j in range(i + 1, len(pts))" from pair k on
RECURSIVE PairLines(_, _, _)
PairLines(pts, k, lb) ==
    LET n == Len(pts) IN
    IF k >= n * n THEN <<>>
    ELSE (IF (k \div n) < (k % n)
          THEN RawLine(pts[(k \div n) + 1], pts[(k % n) + 1], lb)
          ELSE <<>>) \o PairLines(pts, k + 1, lb)

\* "for lb in self.lookbacks: for pts in (lows, highs)" from lookback k on
RECURSIVE LookbackLines(_)
LookbackLines(k) ==
    IF k > Len(ind.lookbacks) THEN <<>>
    ELSE LET lb == ind.lookbacks[k]
         IN  PairLines(ClosePivots(lb, "lows"), 0, lb)
               \o PairLines(ClosePivots(lb, "highs"), 0, lb)
               \o LookbackLines(k + 1)

\* the test that places a raw line in the cluster of the representative
Near(t, rep) ==
    /\ RLeq(RAbs(RSub(t.slope, rep.slope)), ind.slope_tol)
    /\ RLeq(RAbs(RSub(t.intercept, rep.intercept)), ind.intercept_tol)

\* first half of _compute: the raw lines
FitRawLines ==
    /\ pc = "fit"
    /\ raw_lines' = LookbackLines(1)
    /\ pc' = "cluster"
    /\ UNCHANGED <<df, cfg, computed, tl, an, ak, trendlines, ret, ind, ck,
                   clusters, self_trendlines, out,
                   bt, registry>>

\* one iteration of "for tl in raw_lines": the line joins the first cluster
\* whose first member it is near, or starts a cluster; a cluster holds the
\* positions of its lines in raw_lines
ClusterLine ==
    /\ pc = "cluster"
    /\ ck < Len(raw_lines)
    /\ LET t == raw_lines[ck + 1]
           fits == {q \in 1..Len(clusters) :
                      Near(t, raw_lines[clusters[q][1]])}
       IN  clusters' = IF fits = {} THEN Append(clusters, <<ck + 1>>)
                       ELSE [clusters EXCEPT ![SetMin(fits)] =
                                Append(@, ck + 1)]
    /\ ck' = ck + 1
    /\ UNCHANGED <<df, cfg, pc, computed, tl, an, ak, trendlines, ret, ind,
                   raw_lines, self_trendlines, out,
                   bt, registry>>

\* the averaged Trendline of a cluster
Representative(cluster) ==
    LET members == [k \in 1..Len(cluster) |-> raw_lines[cluster[k]]]
    IN  [slope |-> RMean([k \in 1..Len(cluster) |-> members[k].slope]),
         intercept |-> RMean([k \in 1..Len(cluster) |-> members[k].intercept]),
         r2 |-> Frac(SeqSum([k \in 1..Len(cluster) |-> members[k].r2]),
                     Len(cluster)),
         touches |-> SetToSeq(UNION {{members[k].touches[x] :
                                          x \in 1..Len(members[k].touches)} :
                                     k \in 1..Len(cluster)}),
         violations |-> SeqSum([k \in 1..Len(cluster) |-> members[k].violations]),
         lookback |-> SetMin({members[k].lookback : k \in 1..Len(cluster)})]

\* end of _compute: self.trendlines.clear() and one line per cluster
AverageClusters ==
    /\ pc = "cluster"
    /\ ck = Len(raw_lines)
    /\ self_trendlines' = [q \in 1..Len(clusters) |-> Representative(clusters[q])]
    /\ pc' = "computed"
    /\ UNCHANGED <<df, cfg, computed, tl, an, ak, trendlines, ret, ind,
                   raw_lines, ck, clusters, out,
                   bt, registry>>

CBars == 7          \* bars of a table of closes
ClosePrices == {10, 11, 12}

\* TrendlineIndicator(df, lookbacks, tolerance, min_touches, slope_tol,
\* intercept_tol): the defaults, and loose clustering tolerances
Indicators ==
    { [lookbacks |-> lb, tolerance |-> [num |-> 25, den |-> 10000],
       min_touches |-> 2, slope_tol |-> t.s, intercept_tol |-> t.i] :
      lb \in {<<1>>, <<1, 2>>},
      t \in { [s |-> [n |-> 1, d |-> 10000], i |-> [n |-> 1, d |-> 100]],
              [s |-> [n |-> 3, d |-> 7], i |-> [n |-> 10, d |-> 7]] } }

InitCluster ==
    /\ \E c \in [0..(CBars - 1) -> ClosePrices] :
          df = [high |-> c, low |-> c, close |-> c]
    /\ ind \in Indicators
    /\ pc = "fit"
    /\ raw_lines = <<>> /\ ck = 0 /\ clusters = <<>>
    /\ self_trendlines = <<>>
    /\ ComputeIdle /\ AnalyzerIdle /\ out = NoOutput /\ ApartIdle
    /\ tl = NoTrendline

NextCluster == FitRawLines \/ ClusterLine \/ AverageClusters

SpecCluster == InitCluster /\ [][NextCluster]_vars

----------------------------------------------------------------------------
(* Output: to_lightweight(plot_df, include_touches, top_n) of trendline.py. *)
(* plot_df is a slice of the table, its n bars from bar off on; a time is   *)
(* the number of the bar in the table (tsec is increasing in it), a price   *)
(* is a fraction.  A segment and a marker carry, beside the keys of the     *)
(* code's dicts, the position of their line in lines (line) and a marker    *)
(* its position in plot_df (j), which the properties speak about.          *)

\* tsec(i): the time of bar max(0, min(i, n - 1)) of plot_df
Tsec(i, plot) == plot.off + Max2(0, Min2(i, plot.n - 1))

\* _nearest_pos(plot_df.index, ts) for the timestamp of bar i of the table
NearestPos(i, plot) == Max2(0, Min2(i - plot.off, plot.n - 1))

\* L["m"], L["c"], L["side"] need a dict with these keys: a TL object is
\* not subscriptable (TypeError)
Subscriptable(L) == {"m", "c", "side"} \subseteq DOMAIN L

\* float(m * i + c)
YAt(L, i) == Frac(L.m.n * i + L.c, L.m.d)

\* variant: the projection drawn for every line
SegmentsOfAlwaysDashed(L, k, plot) ==
    LET i0 == L.i_from
        iS == L.i_solid
        iP == L.i_proj
    IN  << [x1 |-> Tsec(i0, plot), x2 |-> Tsec(iS, plot),
            y1 |-> YAt(L, i0), y2 |-> YAt(L, iS), lineStyle |-> 0,
            line |-> k],
           [x1 |-> Tsec(iS, plot), x2 |-> Tsec(iP, plot),
            y1 |-> YAt(L, iS), y2 |-> YAt(L, iP), lineStyle |-> 2,
            line |-> k] >>

\* variant: every touch of the line gets a marker
RECURSIVE MarkersOfUnfiltered(_, _, _, _)
MarkersOfUnfiltered(L, k, ts, plot) ==
    IF ts = <<>> THEN <<>>
    ELSE LET j == NearestPos(Head(ts), plot)
         IN  << [time |-> Tsec(j, plot),
                 position |-> IF L.side = "resistance" THEN "belowBar"
                              ELSE "aboveBar",
                 price |-> YAt(L, j), line |-> k, j |-> j] >>
             \o MarkersOfUnfiltered(L, k, Tail(ts), plot)

\* the segments of line k: the solid one, and the dashed one if iP > iS
SegmentsOf(L, k, plot) ==
    LET i0 == L.i_from
        iS == L.i_solid
        iP == L.i_proj
    IN  << [x1 |-> Tsec(i0, plot), x2 |-> Tsec(iS, plot),
            y1 |-> YAt(L, i0), y2 |-> YAt(L, iS), lineStyle |-> 0,
            line |-> k] >>
        \o (IF iP > iS
            THEN << [x1 |-> Tsec(iS, plot), x2 |-> Tsec(iP, plot),
                     y1 |-> YAt(L, iS), y2 |-> YAt(L, iP), lineStyle |-> 2,
                     line |-> k] >>
            ELSE <<>>)

\* the markers of line k: its touches whose position in plot_df is on the
\* solid segment
RECURSIVE MarkersOf(_, _, _, _)
MarkersOf(L, k, ts, plot) ==
    IF ts = <<>> THEN <<>>
    ELSE LET j == NearestPos(Head(ts), plot)
         IN  (IF j < L.i_from \/ j > L.i_solid THEN <<>>
              ELSE << [time |-> Tsec(j, plot),
                       position |-> IF L.side = "resistance" THEN "belowBar"
                                    ELSE "aboveBar",
                       price |-> YAt(L, j), line |-> k, j |-> j] >>)
             \o MarkersOf(L, k, Tail(ts), plot)

\* "for L in lines" from line k on
RECURSIVE AllSegments(_, _, _)
AllSegments(ls, k, plot) ==
    IF k > Len(ls) THEN <<>>
    ELSE SegmentsOf(ls[k], k, plot) \o AllSegments(ls, k + 1, plot)

RECURSIVE AllMarkers(_, _, _)
AllMarkers(ls, k, plot) ==
    IF k > Len(ls) THEN <<>>
    ELSE MarkersOf(ls[k], k, ls[k].touches, plot)
           \o AllMarkers(ls, k + 1, plot)

\* the slices of the table handed in as plot_df: none of its bars, all of
\* them, its head and its tail
Plots ==
    {[off |-> 0, n |-> 0], [off |-> 0, n |-> N],
     [off |-> 0, n |-> N - 2], [off |-> 2, n |-> N - 2]}

\* to_lightweight: top_n = 0 stands for None
ToLightweight ==
    /\ pc = "done"
    /\ \E plot \in Plots, top_n \in {0, 1}, include_touches \in BOOLEAN :
         LET shown == IF top_n # 0 THEN SubSeq(lines, 1, Min2(top_n, Len(lines)))
                      ELSE lines
         IN  IF plot.n = 0
             THEN /\ pc' = "drawn"
                  /\ out' = [segments |-> <<>>, markers |-> <<>>, plot |-> plot]
             ELSE IF \E k \in 1..Len(shown) : ~Subscriptable(shown[k])
             THEN pc' = "raised" /\ out' = out
             ELSE /\ pc' = "drawn"
                  /\ out' = [segments |-> AllSegments(shown, 1, plot),
                             markers |-> IF include_touches
                                         THEN AllMarkers(shown, 1, plot)
                                         ELSE <<>>,
                             plot |-> plot]
    /\ UNCHANGED <<df, cfg, computed, legacy, bt, registry>>

\* tables of MaxShort bars, one lookback, either algorithm, and the same
\* configurations without projection
DrawConfigs ==
    LET one == {c \in Configs : c.lookbacks = <<1>>}
    IN  one \cup {[c EXCEPT !.projection_bars = 0] : c \in one}

InitDraw ==
    /\ \E w \in ShortWords, d \in Drifts :
          /\ DOMAIN w = 0..(MaxShort - 1)
          /\ df = SeriesOf(w, d)
    /\ cfg \in DrawConfigs
    /\ run = 1
    /\ prev_lines = <<>>
    /\ tl = NoTrendline
    /\ AnalyzerIdle /\ ClusterIdle /\ out = NoOutput /\ ApartIdle
    /\ Start

\* one construction and one call of to_lightweight
NextDraw ==
    \/ PivotBar
    \/ PivotReturn
    \/ RoundBegin
    \/ Trial
    \/ RoundFinish
    \/ SideEnd
    \/ BuildSide
    \/ ToLightweight

SpecDraw == InitDraw /\ [][NextDraw]_vars

----------------------------------------------------------------------------
(* Backtester.run of engines/backtester.py: a walk over the rows of a table  *)
(* with columns High, Low, Close, score and direction.  Scores and the      *)
(* entry threshold are in tenths; the ATR and the stop and target prices    *)
(* are fractions n/d.                                                       *)

AtrPeriod == 14                 \* atr_period

RInt(a) == [n |-> a, d |-> 1]
RAdd(a, b) == Frac(a.n * b.d + b.n * a.d, a.d * b.d)
RMul(k, a) == Frac(k * a.n, a.d)

\* tr = max(High - Low, |High - Close.shift()|, |Low - Close.shift()|), the
\* terms of the first row with Close.shift() being NaN skipped by max
TrueRange(i) ==
    LET hl == df.high[i] - df.low[i]
    IN  IF i = 0 THEN hl
        ELSE Max2(hl, Max2(Abs(df.high[i] - df.close[i - 1]),
                           Abs(df.low[i] - df.close[i - 1])))

\* atr = tr.ewm(alpha=1/atr_period, adjust=False).mean()
RECURSIVE Atr(_)
Atr(i) ==
    IF i = 0 THEN RInt(TrueRange(0))
    ELSE LET prev == Atr(i - 1)
         IN  Frac((AtrPeriod - 1) * prev.n + TrueRange(i) * prev.d,
                  AtrPeriod * prev.d)

NoPrice == [n |-> 0, d |-> 0]   \* a price attribute that is None

\* Trade(idx, price, direction) with its stop and target set
OpenTrade(i, direction, atr_val) ==
    LET price == RInt(df.close[i])
        sl == RMul(bt.stop_loss, atr_val)
        tp == RMul(bt.take_profit, atr_val)
    IN  [entry_time |-> i, entry_price |-> price, direction |-> direction,
         stop_price   |-> IF direction = "long" THEN RSub(price, sl)
                                                ELSE RAdd(price, sl),
         target_price |-> IF direction = "long" THEN RAdd(price, tp)
                                                ELSE RSub(price, tp),
         exit_time |-> None, exit_price |-> NoPrice, pnl |-> NoPrice]

\* Trade.close
CloseTrade(t, exit_time, exit_price) ==
    [t EXCEPT !.exit_time = exit_time, !.exit_price = exit_price,
              !.pnl = IF t.direction = "long"
                      THEN RSub(exit_price, t.entry_price)
                      ELSE RSub(t.entry_price, exit_price)]

\* variant: a bar enters whenever its score reaches the threshold
EntersAnyBar(position, score) == score >= bt.entry_threshold

\* "if position is None and score >= self.entry_threshold"
Enters(position, score) == position = None /\ score >= bt.entry_threshold

\* the exit logic on row i for the open trade t
ExitOf(t, i) ==
    LET low == RInt(df.low[i])
        high == RInt(df.high[i])
    IN  IF t.direction = "long"
        THEN IF RLeq(low, t.stop_price)
             THEN CloseTrade(t, i, t.stop_price)
             ELSE IF RLeq(t.target_price, high)
             THEN CloseTrade(t, i, t.target_price)
             ELSE t
        ELSE IF RLeq(t.stop_price, high)
             THEN CloseTrade(t, i, t.stop_price)
             ELSE IF RLeq(low, t.target_price)
             THEN CloseTrade(t, i, t.target_price)
             ELSE t

\* one row of "for idx, row in self.df.iterrows()".  position is the place
\* in self.trades of the Trade the local variable refers to, or None.
BacktestRow ==
    /\ pc = "backtest"
    /\ bt.i < N
    /\ LET i == bt.i
           enters == Enters(bt.position, df.score[i])
           trades1 == IF enters
                      THEN Append(bt.trades,
                                  OpenTrade(i, df.direction[i], Atr(i)))
                      ELSE bt.trades
           position1 == IF enters THEN Len(trades1) ELSE bt.position
           trades2 == IF position1 # None /\ trades1[position1].exit_time = None
                      THEN [trades1 EXCEPT ![position1] = ExitOf(@, i)]
                      ELSE trades1
       IN  bt' = [bt EXCEPT !.i = i + 1, !.position = position1,
                            !.trades = trades2]
    /\ UNCHANGED <<df, cfg, pc, computed, out, legacy, registry>>

\* the results DataFrame: one record per trade of self.trades, or the
\* empty DataFrame
BacktestReturn ==
    /\ pc = "backtest"
    /\ bt.i = N
    /\ pc' = "reported"
    /\ bt' = [bt EXCEPT !.records = bt.trades]
    /\ UNCHANGED <<df, cfg, computed, out, legacy, registry>>

BtBars == 3         \* rows of a backtest table
BtShapes == {[lo |-> -1, hi |-> 1, cl |-> 0],
             [lo |-> -4, hi |-> 1, cl |-> -1],
             [lo |-> -1, hi |-> 4, cl |-> 1]}
Scores == {5, 9}
Directions == {"long", "short"}

\* Backtester(df, engine, entry_threshold, stop_loss, take_profit) and the
\* head of run
InitBacktest ==
    /\ \E w \in [0..(BtBars - 1) -> BtShapes],
          s \in [0..(BtBars - 1) -> Scores],
          d \in [0..(BtBars - 1) -> Directions] :
         df = [high      |-> [i \in DOMAIN w |-> Base + w[i].hi],
               low       |-> [i \in DOMAIN w |-> Base + w[i].lo],
               close     |-> [i \in DOMAIN w |-> Base + w[i].cl],
               score     |-> s,
               direction |-> d]
    /\ bt = [entry_threshold |-> 8, stop_loss |-> 1, take_profit |-> 2,
             trades |-> <<>>, position |-> None, i |-> 0, records |-> <<>>]
    /\ pc = "backtest"
    /\ ComputeIdle /\ AnalyzerIdle /\ ClusterIdle /\ out = NoOutput
    /\ registry = NoRegistry
    /\ tl = NoTrendline

NextBacktest == BacktestRow \/ BacktestReturn

SpecBacktest == InitBacktest /\ [][NextBacktest]_vars

----------------------------------------------------------------------------
(* The indicator registry of portal/backend/service/indicator_service.py.   *)
(* Of the registered types, pivot_level (required parameter timeframe) and  *)
(* trendline (defaults only) are taken, each with the parameters named      *)
(* below.  A dict is a function from its keys; an instance carries the      *)
(* number obj of the construction that built it.                            *)

IndicatorMap == {"pivot_level", "trendline"}            \* _INDICATOR_MAP
CtxKeys == {"symbol", "start", "end", "interval"}       \* ctx_keys

\* inspect.signature(Cls.__init__): parameters without and with a default
Required(type) == IF type = "pivot_level" THEN {"timeframe"} ELSE {}
Defaults(type) ==
    IF type = "pivot_level" THEN [threshold |-> "0.005"]
    ELSE [algo |-> "pivot_ransac", timeframe |-> "1d"]
CtorKeys(type) == Required(type) \cup DOMAIN Defaults(type)

Restrict(f, S) == [k \in (DOMAIN f) \cap S |-> f[k]]

\* "if pname not in params: params[pname] = p.default"
WithDefaults(type, params) ==
    LET d == Defaults(type)
    IN  [k \in (DOMAIN params) \cup (DOMAIN d) |->
            IF k \in DOMAIN params THEN params[k] ELSE d[k]]

\* DataContext.validate: an empty field raises ValueError
CtxInvalid(ctx) == \E k \in DOMAIN ctx : ctx[k] = ""

\* Cls.from_context(provider, ctx, **params) raising: the provider has no
\* data for the symbol, or the constructor gets an unexpected or lacks a
\* required keyword argument
FromContextRaises(type, ctx, params) ==
    \/ ctx["symbol"] = "NODATA"
    \/ ~((DOMAIN params) \subseteq CtorKeys(type))
    \/ ~(Required(type) \subseteq DOMAIN params)

\* the instance built and _extract_ctor_params of it
Instance(type, ctx, params, obj) ==
    [type |-> type, ctx |-> ctx, params |-> WithDefaults(type, params),
     obj |-> obj]

\* type_str.replace("_", " ").title()
Title(type) == IF type = "pivot_level" THEN "Pivot Level" ELSE "Trendline"

\* what create_instance raises for its arguments, or "ok"
CreateStatus(type, params) ==
    IF type \notin IndicatorMap THEN "ValueError"
    ELSE IF ~(CtxKeys \subseteq DOMAIN params) THEN "ValueError"
    ELSE IF CtxInvalid(Restrict(params, CtxKeys)) THEN "ValueError"
    ELSE IF FromContextRaises(type, Restrict(params, CtxKeys),
                              Restrict(params, (DOMAIN params) \ CtxKeys))
         THEN "RuntimeError"
    ELSE "ok"

\* what update_instance raises for its arguments, or "ok"
UpdateStatus(inst_id, type, params) ==
    IF inst_id \notin DOMAIN registry.entries THEN "KeyError"
    ELSE IF type # registry.entries[inst_id].meta.type THEN "ValueError"
    ELSE IF ~(Required(type) \subseteq DOMAIN params) THEN "ValueError"
    ELSE LET all == WithDefaults(type, params)
             ctx == Restrict(all, CtxKeys)
         IN  IF ~(CtxKeys \subseteq DOMAIN all) THEN "ValueError"
             ELSE IF CtxInvalid(ctx) THEN "ValueError"
             ELSE IF FromContextRaises(type, ctx,
                                       Restrict(all, (DOMAIN all) \ CtxKeys))
                  THEN "RuntimeError"
             ELSE "ok"

\* variant: the new instance is stored whatever the outcome of the call
StoredAlways(entry, status, inst, name) ==
    [meta |-> [entry.meta EXCEPT !.params = inst.params,
                                 !.name = IF name # "" THEN name ELSE @],
     instance |-> inst]

\* the entry after update_instance: the three assignments at its end are
\* reached only when nothing was raised
Stored(entry, status, inst, name) ==
    IF status = "ok"
    THEN [meta |-> [entry.meta EXCEPT !.params = inst.params,
                                      !.name = IF name # "" THEN name ELSE @],
          instance |-> inst]
    ELSE entry

MaxIds == 2         \* ids handed out by uuid4
MaxBuilt == 3       \* instances built

Names == {"", "A"}     \* name None or empty, and a name
Contexts ==
    { [symbol |-> s, start |-> "2024-01-01", end |-> "2024-02-01",
       interval |-> "1h"] : s \in {"SPY", "", "NODATA"} }
      \cup {[symbol |-> "SPY", start |-> "2024-01-01", end |-> "2024-02-01"]}
\* bin_size is a parameter of neither type
CtorArgs == {<<>>, [timeframe |-> "1h"], [bin_size |-> "0.1"]}

\* the params of a request: constructor arguments with the complete
\* context, or any context with the constructor arguments the type requires
GoodContext == [symbol |-> "SPY", start |-> "2024-01-01",
                end |-> "2024-02-01", interval |-> "1h"]
Requests ==
    { GoodContext @@ a : a \in CtorArgs }
      \cup { c @@ [timeframe |-> "1h"] : c \in Contexts }

Reply(op, inst_id, status) == [op |-> op, id |-> inst_id, status |-> status]

CreateInstance ==
    /\ pc = "serving"
    /\ \E type \in IndicatorMap \cup {"unknown"}, name \in Names,
          params \in Requests :
         LET status == CreateStatus(type, params)
             inst_id == registry.made + 1
             inst == Instance(type, Restrict(params, CtxKeys),
                              Restrict(params, (DOMAIN params) \ CtxKeys),
                              registry.built + 1)
             meta == [id |-> inst_id, type |-> type, params |-> inst.params,
                      enabled |-> TRUE,
                      name |-> IF name # "" THEN name ELSE Title(type)]
         IN  IF status = "ok"
             THEN /\ registry.made < MaxIds
                  /\ registry.built < MaxBuilt
                  /\ registry' =
                       [registry EXCEPT
                          !.entries = (inst_id :> [meta |-> meta,
                                                   instance |-> inst]) @@ @,
                          !.made = inst_id,
                          !.built = @ + 1,
                          !.reply = Reply("create", inst_id, status)]
             ELSE registry' =
                    [registry EXCEPT !.reply = Reply("create", 0, status)]
    /\ UNCHANGED <<df, cfg, pc, computed, out, legacy, bt>>

UpdateInstance ==
    /\ pc = "serving"
    /\ \E inst_id \in 1..MaxIds, type \in IndicatorMap,
          name \in Names, params \in Requests :
         LET status == UpdateStatus(inst_id, type, params)
             all == WithDefaults(type, params)
             inst == Instance(type, Restrict(all, CtxKeys),
                              Restrict(all, (DOMAIN all) \ CtxKeys),
                              registry.built + 1)
         IN  /\ status = "ok" => registry.built < MaxBuilt
             /\ registry' =
                  [registry EXCEPT
                     !.entries =
                        IF inst_id \in DOMAIN @
                        THEN [@ EXCEPT ![inst_id] =
                                          Stored(@, status, inst, name)]
                        ELSE @,
                     !.built = IF status = "ok" THEN @ + 1 ELSE @,
                     !.reply = Reply("update", inst_id, status)]
    /\ UNCHANGED <<df, cfg, pc, computed, out, legacy, bt>>

DeleteInstance ==
    /\ pc = "serving"
    /\ \E inst_id \in 1..MaxIds :
         registry' =
            IF inst_id \in DOMAIN registry.entries
            THEN [registry EXCEPT
                    !.entries = [k \in (DOMAIN @) \ {inst_id} |-> @[k]],
                    !.reply = Reply("delete", inst_id, "ok")]
            ELSE [registry EXCEPT
                    !.reply = Reply("delete", inst_id, "KeyError")]
    /\ UNCHANGED <<df, cfg, pc, computed, out, legacy, bt>>

GetInstanceMeta ==
    /\ pc = "serving"
    /\ \E inst_id \in 1..MaxIds :
         registry' =
            [registry EXCEPT
               !.reply = Reply("get", inst_id,
                               IF inst_id \in DOMAIN registry.entries
                               THEN "ok" ELSE "KeyError")]
    /\ UNCHANGED <<df, cfg, pc, computed, out, legacy, bt>>

\* the module loaded: _REGISTRY = {}
InitRegistry ==
    /\ registry = [entries |-> <<>>, made |-> 0, built |-> 0,
                   reply |-> Reply("none", 0, "ok")]
    /\ pc = "serving"
    /\ df = SeriesOf([i \in 0..1 |-> Quiet], 0)
    /\ ComputeIdle /\ AnalyzerIdle /\ ClusterIdle /\ out = NoOutput
    /\ bt = NoBacktest
    /\ tl = NoTrendline

NextRegistry ==
    \/ CreateInstance
    \/ UpdateInstance
    \/ DeleteInstance
    \/ GetInstanceMeta

SpecRegistry == InitRegistry /\ [][NextRegistry]_vars

----------------------------------------------------------------------------
(* Properties.  They are stated on the emitted records and the input table  *)
(* with definitions of their own, not with the operators of the paths.      *)

\* every line emitted so far, in self.lines or still in lines_side
AllLines == lines \o lines_side
Emitted == {AllLines[k] : k \in 1..Len(AllLines)}
IsRansac == cfg.algo = "pivot_ransac"

\* slope and intercept of a line of either shape (dict of the RANSAC path,
\* TL object of the window path)
SlopeOf(L) == IF "m" \in DOMAIN L THEN L.m ELSE L.slope
InterceptOf(L) == IF "c" \in DOMAIN L THEN L.c ELSE L.intercept

\* line price at bar x, scaled by the slope's denominator
PriceAt(L, x) == SlopeOf(L).n * x + InterceptOf(L)

\* L.get("i_solid", L.get("i_to")): end of the solid segment of either shape
SolidEnd(L) == IF "i_solid" \in DOMAIN L THEN L.i_solid ELSE L.i_to

\* bar x decisively breaches line L
Breaches(L, x) ==
    IF L.side = "resistance"
    THEN df.high[x] * SlopeOf(L).d * BreakTolDen
           > PriceAt(L, x) * (BreakTolDen + BreakTolNum)
    ELSE df.low[x] * SlopeOf(L).d * BreakTolDen
           < PriceAt(L, x) * (BreakTolDen - BreakTolNum)

\* index of the first breaching bar from the line's start when that is after
\* the start, else the last bar
BreakEnd(L) ==
    LET hits == {x \in L.i_from..last : Breaches(L, x)}
    IN  IF hits # {} /\ SetMin(hits) > L.i_from THEN SetMin(hits) ELSE last

LastInlier(L) == SetMax({L.px[k] : k \in 1..Len(L.px)})
FirstInlier(L) == SetMin({L.px[k] : k \in 1..Len(L.px)})

C2_SegmentOrder ==
    IsRansac => \A L \in Emitted :
        /\ 0 <= L.i_from
        /\ L.i_from <= L.i_solid
        /\ L.i_solid <= L.i_proj
        /\ L.i_proj <= last

\* a projected line whose projection is clipped by the end of the series
C2_Witness ==
    /\ IsRansac
    /\ \E L \in Emitted : /\ L.i_from < L.i_solid
                          /\ L.i_solid < L.i_proj
                          /\ L.i_solid + cfg.projection_bars > last

\* bar x lies across line L
Crosses(L, x) ==
    /\ df.low[x] * SlopeOf(L).d <= PriceAt(L, x)
    /\ PriceAt(L, x) <= df.high[x] * SlopeOf(L).d

C4_Envelope ==
    \A L \in Emitted :
        /\ SlopeOf(L) = OlsSlope(L.px, L.py)
        /\ \A k \in 1..Len(L.px) :
             IF L.side = "resistance"
             THEN PriceAt(L, L.px[k]) <= L.py[k] * SlopeOf(L).d
             ELSE PriceAt(L, L.px[k]) >= L.py[k] * SlopeOf(L).d
        /\ \E k \in 1..Len(L.px) : PriceAt(L, L.px[k]) = L.py[k] * SlopeOf(L).d

\* a support line that is strictly over one of its covered low pivots
C4_Witness ==
    \E L \in Emitted : /\ L.side = "support"
                       /\ \E k \in 1..Len(L.px) :
                            PriceAt(L, L.px[k]) > L.py[k] * SlopeOf(L).d

\* C5: the score of a Trendline is in [0, 1].
C5_ScoreBounds ==
    tl.score # None => (0 <= tl.score /\ tl.score <= ScoreDen)

\* the fields of a line record the code holds
Visible(L) == [side |-> L.side, m |-> L.m, c |-> L.c, i_from |-> L.i_from,
               i_solid |-> L.i_solid, i_proj |-> L.i_proj, touches |-> L.touches]

\* C6: constructing the indicator again on the same table with the same
\* arguments gives the same line list.
C6_Idempotent ==
    (IsRansac /\ run = 2 /\ pc = "done") =>
        /\ Len(lines) = Len(prev_lines)
        /\ \A k \in 1..Len(lines) : Visible(lines[k]) = Visible(prev_lines[k])

\* px within frac of p, relative to p
WithinFrac(px, p, frac) == Abs(px - p) * frac.den < frac.num * p

\* the pivots of two lists with their kind and position; Earlier is the order
\* of acceptance: by bar, the high of a bar before its low
Tagged(hs, ls) ==
    {[i |-> hs[k].i, p |-> hs[k].p, kind |-> 0, pos |-> k] : k \in 1..Len(hs)}
    \cup {[i |-> ls[k].i, p |-> ls[k].p, kind |-> 1, pos |-> k] : k \in 1..Len(ls)}
Earlier(a, b) ==
    \/ a.i < b.i
    \/ a.i = b.i /\ a.kind < b.kind
    \/ a.i = b.i /\ a.kind = b.kind /\ a.pos < b.pos
FarApart(hs, ls) ==
    \A a, b \in Tagged(hs, ls) :
        Earlier(a, b) => ~WithinFrac(b.p, a.p, cfg.pivot_dedupe_frac)
IsPrefix(s, t) == Len(s) <= Len(t) /\ SubSeq(t, 1, Len(s)) = s

\* C7: within one _find_pivots call the lists only grow, and after every
\* step no accepted pivot is within dedup_frac of a pivot accepted before it
\* (high or low), the distance being relative to the earlier pivot's price.
C7_PivotDedup ==
    [][(pc = "find_pivots" /\ pc' = "find_pivots" /\ lbk' = lbk /\ run' = run)
         => /\ IsPrefix(highs, highs')
            /\ IsPrefix(lows, lows')
            /\ FarApart(highs', lows')]_vars

StrictHigh(i, lb) == \A k \in ((i - lb)..(i + lb)) \ {i} : df.high[i] > df.high[k]
StrictLow(i, lb) == \A k \in ((i - lb)..(i + lb)) \ {i} : df.low[i] < df.low[k]
BarsOf(s) == {s[k].i : k \in 1..Len(s)}

\* a local high that was discarded as a near-duplicate while pivots of both
\* kinds are accepted
C7_Witness ==
    /\ pc = "find_pivots"
    /\ highs # <<>> /\ lows # <<>>
    /\ \E i \in cfg.lookbacks[lbk]..(bar - 1) :
         StrictHigh(i, cfg.lookbacks[lbk]) /\ i \notin BarsOf(highs)

\* C8: the pooled pivots, in time order, are pairwise farther apart than
\* dedup_frac (so no bar is pooled twice).
C8_PooledDedup ==
    pc \in {"round", "trial", "side_end", "build_side", "done"}
        => FarApart(piv.hi, piv.lo)

\* C9 as stated: no bar is both a high and a low pivot of one pass.
C9_NoBarBoth ==
    pc = "find_pivots" => BarsOf(highs) \cap BarsOf(lows) = {}

\* C9 amended: the low test is not skipped for a bar accepted as a high
\* pivot: such a bar is also a low pivot exactly when its low is a strict
\* local low and is not within dedup_frac of a pivot accepted before it, its
\* own high included.
C9_LowTestedAfterHighAccepted ==
    pc = "find_pivots" =>
        \A i \in BarsOf(highs) :
            i \in BarsOf(lows) <=>
                /\ StrictLow(i, cfg.lookbacks[lbk])
                /\ \A a \in Tagged(highs, lows) :
                     Earlier(a, [i |-> i, kind |-> 1, pos |-> 0])
                       => ~WithinFrac(df.low[i], a.p, cfg.pivot_dedupe_frac)

\* a bar accepted as both
C9_Witness ==
    pc = "find_pivots" /\ BarsOf(highs) \cap BarsOf(lows) # {}

\* C10: the covered pivots of every emitted line span at least min_span_bars.
C10_MinSpan ==
    \A L \in Emitted : LastInlier(L) - FirstInlier(L) >= cfg.min_span_bars

\* the table has fewer than 2 * lookback + 1 bars for every lookback
TooFewBars == \A k \in 1..Len(cfg.lookbacks) : N < 2 * cfg.lookbacks[k] + 1

\* C11: on a table with fewer than 2 * lookback + 1 bars (no bar at all
\* included) and valid arguments _find_pivots finds nothing and the
\* computation neither raises nor leaves a line.
C11_InsufficientDataIsNoError ==
    (TooFewBars /\ ~InvalidConfig(cfg)) =>
        /\ highs = <<>> /\ lows = <<>>
        /\ piv = [hi |-> <<>>, lo |-> <<>>]
        /\ lines = <<>>
        /\ pc # "raised"

\* C12: a construction with a lookback < 1 or max_lines_per_side < 1 never
\* gets as far as searching pivots or returning a line list.
C12_InvalidConfigFailsFast ==
    InvalidConfig(cfg) => /\ pc # "done"
                          /\ bar = cfg.lookbacks[1]

DistinctDates(pivots) ==
    \A j, k \in 1..Len(pivots) : j # k => pivots[j].t # pivots[k].t

\* C13: degenerate geometry never raises: on a pivot list with a price of
\* zero (the divisor of _point_on_line), even with one pivot per date,
\* analyze skips the offending pair and returns normally.
C13_DegenerateGeometryNeverRaises ==
    (an # NoAnalyzer /\ DistinctDates(an.pivots)) => pc # "raised"

\* C14: in the list returned by analyze every two lines share at most 10%
\* of the covered pivots of the smaller of the two.
C14_OverlapRelativeToSmaller ==
    pc = "returned" =>
        \A j, k \in 1..Len(ret) :
            j # k =>
                Shared(ret[j].points, ret[k].points) * OverlapDen
                    <= OverlapNum * Min2(Len(ret[j].points), Len(ret[k].points))

\* a line analyze would build from the pivots a and b of different dates
CandidateOf(a, b) ==
    LET L == LineParameters(a, b)
        OnLine(q) == PointOnLine(L, q)
    IN  MakeTrendline(L, SortByDate(SelectSeq(an.pivots, OnLine)))

\* two lines are duplicates under the overlap rule (either way round)
Duplicates(s, t) ==
    \/ Shared(s.points, t.points) * OverlapDen > OverlapNum * Len(s.points)
    \/ Shared(s.points, t.points) * OverlapDen > OverlapNum * Len(t.points)

\* C15: a returned line scores at least as high as every candidate line that
\* is a duplicate of it, whichever pair of pivots was visited first.
C15_KeepsHighestScoringDuplicate ==
    (pc = "returned" /\ DistinctDates(an.pivots)
       /\ \A k \in 1..Len(an.pivots) : an.pivots[k].p # 0) =>
        \A r \in 1..Len(ret) :
            \A i, j \in 1..Len(an.pivots) :
                (i < j /\ i <= Len(an.pivots) - an.min_points + 1) =>
                    LET t == CandidateOf(an.pivots[i], an.pivots[j])
                    IN  (/\ Len(t.points) >= an.min_points
                         /\ Duplicates(t, ret[r])) =>
                            ~ScoreGreater(t, ret[r])

\* the violation_ratio > 0.5 penalty of _calculate_score zeroes the score
Zeroed(t) == 2 * t.violations > Max2(1, t.length)

\* C17: the list analyze returns is in non-increasing score order, has at
\* most max_trendlines lines, and every line of it scores strictly above
\* trendline_min_score; with the minimum at 0 no zeroed line is returned.
C17_RankerOutput ==
    pc = "returned" =>
        /\ \A k \in 1..(Len(ret) - 1) : ~ScoreGreater(ret[k + 1], ret[k])
        /\ Len(ret) <= an.max_trendlines
        /\ \A k \in 1..Len(ret) :
              /\ ScoreAboveMin(ret[k])
              /\ an.trendline_min_score = 0 => ~Zeroed(ret[k])

\* two lines were accepted, the second scores higher and is the only one
\* returned, and a candidate of enough pivots was zeroed
C17_Witness ==
    /\ pc = "returned"
    /\ Len(trendlines) = 2 /\ an.max_trendlines = 1
    /\ ScoreGreater(trendlines[2], trendlines[1])
    /\ ret = <<trendlines[2]>>
    /\ DistinctDates(an.pivots)
    /\ \E i, j \in 1..Len(an.pivots) :
          /\ i < j /\ i <= Len(an.pivots) - an.min_points + 1
          /\ LET t == CandidateOf(an.pivots[i], an.pivots[j])
             IN  /\ Len(t.points) >= an.min_points
                 /\ Zeroed(t) /\ t.score = 0

\* C18: of two returned lines of equal score the one that starts later (the
\* more recent one) comes first.  Stated for flat lines, whose r_squared
\* and angle are exactly 0, so that their scores are equal as computed.
C18_TieBreakMostRecentFirst ==
    pc = "returned" =>
        \A j, k \in 1..Len(ret) :
            (/\ j < k
             /\ ret[j].slope.n = 0 /\ ret[k].slope.n = 0
             /\ ~ScoreGreater(ret[j], ret[k])
             /\ ~ScoreGreater(ret[k], ret[j])) =>
                ret[j].start_date >= ret[k].start_date

\* the cluster a raw line was placed in
ClusterOf(k) ==
    CHOOSE q \in 1..Len(clusters) :
        \E x \in 1..Len(clusters[q]) : clusters[q][x] = k

\* C16: after the clustering of _compute any two raw lines whose slopes
\* differ by at most slope_tol and whose intercepts differ by at most
\* intercept_tol are in the same cluster, hence under one output line.
C16_ClusteringMergesEveryDuplicatePair ==
    pc = "computed" =>
        \A a, b \in 1..Len(raw_lines) :
            Near(raw_lines[a], raw_lines[b]) => ClusterOf(a) = ClusterOf(b)

\* the lines of a side in self.lines
LinesOfSide(sd) == {k \in 1..Len(lines) : lines[k].side = sd}

\* C19: on the pivot_ransac path a side never begins more than
\* max_lines_per_side rounds, every line of the side took one of them (so a
\* round dropped by the direction filter is counted), and self.lines holds
\* at most max_lines_per_side lines of either side.
C19_PerSideCap ==
    cfg.algo = "pivot_ransac" =>
        /\ rnd <= cfg.max_lines_per_side
        /\ Len(lines_side) <= rnd
        /\ Cardinality(LinesOfSide("resistance")) <= cfg.max_lines_per_side
        /\ Cardinality(LinesOfSide("support")) <= cfg.max_lines_per_side

\* the only round of a side was dropped by the direction filter and the
\* loop ended on the cap with pivots left for another round
C19_Witness ==
    /\ pc = "side_end"
    /\ cfg.enforce_direction
    /\ rnd = cfg.max_lines_per_side
    /\ used # {} /\ lines_side = <<>>
    /\ Cardinality(Avail) >= Max2(2, cfg.ransac_min_inliers)
    /\ SetMax({P[k].i : k \in Avail}) - SetMin({P[k].i : k \in Avail})
         >= cfg.min_span_bars

\* the keys to_lightweight and the tests read from a line
LineKeys == {"side", "m", "c", "i_from", "i_solid", "i_proj", "touches"}

\* C20: whichever algorithm built them, the entries of lines expose side, m,
\* c, i_from, i_solid, i_proj and touches, and to_lightweight returns on
\* them.
C20_SameShapeEitherAlgorithm ==
    /\ \A k \in 1..Len(lines) : LineKeys \subseteq DOMAIN lines[k]
    /\ pc # "raised"

\* open = high = low = close = one constant on every bar
IsFlat ==
    \A x \in DOMAIN df.close :
        /\ df.high[x] = df.close[0]
        /\ df.low[x] = df.close[0]
        /\ df.close[x] = df.close[0]

\* C21: on a constant-price table _find_pivots accepts no high and no low
\* pivot for any lookback, and the line list stays empty.
C21_FlatSeriesHasNoPivots ==
    IsFlat =>
        /\ highs = <<>> /\ lows = <<>>
        /\ all_highs = <<>> /\ all_lows = <<>>
        /\ piv = [hi |-> <<>>, lo |-> <<>>]
        /\ lines_side = <<>> /\ lines = <<>>
        /\ pc # "raised"

\* a constant-price table with bars to test for every lookback, computed
\* to the end
C21_Witness ==
    /\ IsFlat
    /\ pc = "done"
    /\ \A k \in 1..Len(cfg.lookbacks) : N >= 2 * cfg.lookbacks[k] + 1
    /\ lines = <<>>

Dashed == {k \in 1..Len(out.segments) : out.segments[k].lineStyle = 2}

\* C22: every segment to_lightweight emits has x2 >= x1 and lineStyle 0 or
\* 2; a dashed segment belongs to a line whose projection end is beyond its
\* solid end; with projection_bars = 0 there is no dashed segment.
C22_SegmentsWellFormed ==
    pc = "drawn" =>
        /\ \A k \in 1..Len(out.segments) :
              /\ out.segments[k].x2 >= out.segments[k].x1
              /\ out.segments[k].lineStyle \in {0, 2}
        /\ \A k \in Dashed :
              lines[out.segments[k].line].i_proj
                  > lines[out.segments[k].line].i_solid
        /\ cfg.projection_bars = 0 => Dashed = {}

\* a line drawn with a solid segment and a dashed projection, both longer
\* than a point
C22_Witness ==
    /\ pc = "drawn"
    /\ \E k \in Dashed :
          /\ out.segments[k].x2 > out.segments[k].x1
          /\ \E q \in 1..Len(out.segments) :
                /\ out.segments[q].line = out.segments[k].line
                /\ out.segments[q].lineStyle = 0
                /\ out.segments[q].x2 > out.segments[q].x1

\* the solid segments emitted for line k
SolidOf(k) ==
    {q \in 1..Len(out.segments) :
        out.segments[q].line = k /\ out.segments[q].lineStyle = 0}

\* C23: every marker belongs to a line whose solid segment was emitted, its
\* position j is within i_from..i_solid of that line, and its time is
\* within that solid segment and within plot_df.
C23_MarkersOnSolidSegment ==
    pc = "drawn" =>
        \A k \in 1..Len(out.markers) :
            LET mk == out.markers[k]
                L  == lines[mk.line]
            IN  /\ L.i_from <= mk.j /\ mk.j <= L.i_solid
                /\ SolidOf(mk.line) # {}
                /\ \A q \in SolidOf(mk.line) :
                      /\ out.segments[q].x1 <= mk.time
                      /\ mk.time <= out.segments[q].x2
                /\ out.plot.off <= mk.time
                /\ mk.time <= out.plot.off + out.plot.n - 1

\* plot_df is the tail of the table: a touch of a drawn line is left
\* without a marker because its position in plot_df is before i_from, and
\* another touch has its marker
C23_Witness ==
    /\ pc = "drawn"
    /\ out.plot.off > 0
    /\ \E k \in 1..Len(out.markers) :
          LET L == lines[out.markers[k].line]
          IN  \E x \in 1..Len(L.touches) :
                 NearestPos(L.touches[x], out.plot) < L.i_from

\* a round of the side ended without a line and the loop went on: its line
\* was discarded by the direction filter
RoundDropped == pc = "round" /\ Len(lines_side) < rnd

\* C24: an indicator constructed without the argument enforce_direction
\* never discards a line for the sign of its slope.
C24_DirectionFilterOnlyWhenEnabled ==
    ~cfg.enforce_passed => ~RoundDropped

\* n = len(self.pivots): the pivots the pair loops of analyze run over
ScanSize == Len(an.pivots)

\* C25: the pair scan runs on a capped pivot list: however long the list
\* given, the scan takes no more pivots than the cap.  The longest list of
\* these tables has LongRun + 2 pivots, so a cap that ever cuts a list
\* short is at most LongRun.
C25_ScanRunsOnCappedPivots ==
    (pc = "analyze" /\ ak > FirstPair) => ScanSize <= LongRun

\* the pivots of P the lines of lines_side cover, by bar index
CoveredBy(L) == {L.px[k] : k \in 1..Len(L.px)}

\* C26: sequential RANSAC exclusivity within a side.  The best mask of a
\* round holds only pivots no earlier round retired, a round runs only while
\* at least ransac_min_inliers pivots are unretired, the step that ends a
\* round with a line (kept or dropped by the direction filter) retires all
\* its inliers and forgets none retired before, and no two lines of the side
\* cover a common pivot.
C26_SequentialRansacExclusive ==
    [][ /\ pc' = "trial" =>
              /\ best'.mask \cap used' = {}
              /\ Cardinality((1..Len(P')) \ used') >= cfg'.ransac_min_inliers
        /\ (pc = "trial" /\ pc' = "round") =>
              /\ best.mask \subseteq used'
              /\ used \subseteq used'
        /\ \A a, b \in 1..Len(lines_side') :
              a # b => CoveredBy(lines_side'[a]) \cap CoveredBy(lines_side'[b]) = {}
      ]_vars

\* a second round found a line among the pivots left by a first round
\* whose line the direction filter dropped
C26_Witness ==
    /\ pc = "trial" /\ rnd = 2
    /\ lines_side = <<>>
    /\ used # {}
    /\ best.cnt >= cfg.ransac_min_inliers

\* C27: _ransac_line keeps the trial with the most inliers.  While the
\* trials of a round run, the count kept is the largest inlier count of the
\* non-degenerate trials drawn so far and the mask kept is the first one
\* drawn with that count; the call returns no line when that count is below
\* ransac_min_inliers or fewer than 2 pivots are given; every line of the
\* RANSAC path has at least ransac_min_inliers inlier pivots.
C27_RansacKeepsMostInliers ==
    [][ /\ pc' = "trial" =>
              /\ best'.cnt = best'.top
              /\ best'.cnt = Cardinality(best'.mask)
              /\ best'.mask = best'.first
        /\ (pc = "trial" /\ trial = cfg.ransac_trials
               /\ best.top < cfg.ransac_min_inliers) =>
              pc' = "side_end" /\ lines_side' = lines_side
        /\ (pc = "round" /\ Cardinality((1..Len(P)) \ used) < 2) =>
              pc' = "side_end" /\ lines_side' = lines_side
        /\ \A k \in 1..Len(lines_side') :
              Len(lines_side'[k].px) >= cfg.ransac_min_inliers
        /\ IsRansac =>
              \A k \in 1..Len(lines') :
                 Len(lines'[k].px) >= cfg.ransac_min_inliers
      ]_vars

\* the trials of a call are over, the mask kept has exactly
\* ransac_min_inliers = 3 inliers, and another pair of the pivots given has
\* fewer
C27_Witness ==
    /\ pc = "trial" /\ trial = cfg.ransac_trials
    /\ cfg.ransac_min_inliers = 3
    /\ best.cnt = 3
    /\ \E i, j \in Avail :
         /\ i # j /\ P[i].i # P[j].i
         /\ Cardinality(TrialMask(i, j)) < best.cnt

\* the pair loops of analyze have passed the pair of pivots i < j (positions
\* from 0): its code lies before the position ak of the loops
Visited(i, j) == i * Len(an.pivots) + j < ak

\* C28: when the pair loops of analyze are over, every pair of pivots with
\* distinct timestamps was taken as a candidate, wherever it stands in the
\* pivot list.
C28_EveryPairIsACandidate ==
    (pc = "analyze" /\ Len(an.pivots) >= an.min_points /\ PairsDone) =>
        \A i, j \in 0..(Len(an.pivots) - 1) :
            (i < j /\ an.pivots[i + 1].t # an.pivots[j + 1].t) => Visited(i, j)

\* C29: Backtester.run opens at most one trade and holds at most one
\* position.  A row opens a trade only when no position was taken before
\* and its score reaches entry_threshold; a trade once closed is never
\* touched again, and it is closed at its stop or its target price; the
\* position, once taken, is never cleared.
C29_OneTradePerRun ==
    [][ /\ Len(bt'.trades) <= 1
        /\ Len(bt'.trades) > Len(bt.trades) =>
              /\ bt.position = None
              /\ bt.trades = <<>>
              /\ df.score[bt.i] >= bt.entry_threshold
        /\ \A k \in 1..Len(bt.trades) :
              bt.trades[k].exit_time # None => bt'.trades[k] = bt.trades[k]
        /\ \A k \in 1..Len(bt'.trades) :
              bt'.trades[k].exit_time # None =>
                 bt'.trades[k].exit_price \in {bt'.trades[k].stop_price,
                                              bt'.trades[k].target_price}
        /\ bt.position # None => bt'.position = bt.position
      ]_vars

\* the one trade has exited, and a later row whose score reaches the
\* threshold was walked over without a second trade
C29_Witness ==
    /\ Len(bt.trades) = 1
    /\ bt.trades[1].exit_time # None
    /\ \E j \in 0..(bt.i - 1) :
         /\ j > bt.trades[1].exit_time
         /\ df.score[j] >= bt.entry_threshold

\* C30: registry update is atomic on failure.  A step made by an
\* update_instance call that raised leaves every entry of the registry as
\* it was; one that returned stores an instance built by that call together
\* with its captured params and touches no other entry; a get, update or
\* delete of an id that is not registered raises KeyError and changes
\* nothing; an id once deleted is never registered again.
C30_UpdateAtomicOnFailure ==
    [][ LET r == registry'.reply
            before == registry.entries
            after == registry'.entries
        IN  /\ (r.op = "update" /\ r.status # "ok") =>
                  after = before /\ registry'.built = registry.built
            /\ (r.op = "update" /\ r.status = "ok") =>
                  /\ DOMAIN after = DOMAIN before
                  /\ after[r.id].instance.obj = registry.built + 1
                  /\ after[r.id].meta.params = after[r.id].instance.params
                  /\ after[r.id].meta.type = before[r.id].meta.type
                  /\ \A k \in (DOMAIN before) \ {r.id} : after[k] = before[k]
            /\ (r.op \in {"get", "update", "delete"}
                   /\ r.id \notin DOMAIN before) =>
                  r.status = "KeyError" /\ after = before
            /\ \A k \in 1..registry.made :
                  k \notin DOMAIN before => k \notin DOMAIN after
      ]_vars

\* an update of a registered id has just failed on re-instantiation, after
\* an earlier update of the same id succeeded and another id was deleted
C30_Witness ==
    /\ registry.reply.op = "update"
    /\ registry.reply.status = "RuntimeError"
    /\ registry.reply.id \in DOMAIN registry.entries
    /\ registry.entries[registry.reply.id].instance.obj = MaxBuilt
    /\ registry.made > Cardinality(DOMAIN registry.entries)

============================================================================
